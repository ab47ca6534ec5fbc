---------------------------- MODULE EncryptionKeys ----------------------------
(***************************************************************************)
(* The encryption key of one managed cluster.  Hub templates that protect  *)
(* values are encrypted with the key of the Secret "policy-encryption-key" *)
(* in the cluster's namespace.  The replicated-policy reconciler reads the *)
(* Secret, or creates it, when it resolves templates; the encryption-keys  *)
(* controller rotates the key, keeps the one before as previousKey, and    *)
(* touches the root policies whose replicas are encrypted so that they are *)
(* resolved again.  The managed cluster decrypts with either key.          *)
(*                                                                         *)
(* Both controllers read the Secret from an informer cache that lags       *)
(* behind the API server.  A generated key is named by the resourceVersion *)
(* under which it is first stored.                                         *)
(***************************************************************************)
EXTENDS Integers, Sequences, FiniteSets, SequencesExt

CONSTANTS
    Policies,     \* root policies placed on the cluster
    Period,       \* KeyRotationDays, in units of time
    Bad,          \* bytes that are no AES key, or no bytes at all
    Empty,        \* an empty previousKey; also a key that was never read
    NoStamp,      \* a last-rotated annotation that is missing or malformed
    NoSecret,     \* the Secret does not exist
    NoReplica,    \* the replicated policy does not exist
    Unset,        \* no trigger-update annotation
    MaxTime,      \* bound of the clock
    MaxEvents     \* bound of the edits, failures and restarts together; each
                  \* policy placed from the start counts too

ASSUME KeyAssumption == {Bad, Empty, NoReplica} \cap Nat = {} /\ Empty # Bad
ASSUME PeriodAssumption == Period \in Nat \ {0}
ASSUME PoliciesAssumption == IsFiniteSet(Policies) /\ Policies # {}
ASSUME EncryptionBounds ==
    /\ {MaxTime, MaxEvents} \subseteq Nat
    /\ Cardinality(Policies) <= MaxEvents

VARIABLES
    api,          \* the Secret on the API server
    stream,       \* its versions the informer has not delivered
    cached,       \* the Secret in the cache
    version,      \* the last resourceVersion given out
    now,          \* the clock
    wake,         \* when RequeueAfter is due, 0 for never
    secretQueued, \* the Secret is in the encryption-keys queue
    pc,           \* step of the encryption-keys reconcile
    loc,          \* its copy of the Secret
    todo,         \* replicas triggerTemplateUpdate has still to go through
    mark,         \* trigger-update annotation of each root policy
    placed,       \* root policies that exist and are placed on the cluster
    queued,       \* replicated policies in the propagator's queue
    ppc,          \* step of the reconcile of each replicated policy
    got,          \* key last obtained by the reconcile of each policy
    replica,      \* key each replica is encrypted with
    listed,       \* replicas the cache shows with an initialization vector
    missed,       \* history: keys whose trigger passed the policy by, that were
                  \* replaced before it, or that its reconcile could not see
    unmoved,      \* history: keys announced by a value the root policy had
    events        \* edits, failures and restarts so far

secretVars == <<api, stream, version>>
keyVars    == <<wake, secretQueued, pc, loc, todo>>
policyVars == <<placed, queued, ppc, got, replica, listed>>
keysVars   == <<secretVars, cached, now, wake, secretQueued, pc, loc, todo, mark,
                placed, queued, ppc, got, replica, listed, missed, unmoved,
                events>>

Keys   == Nat \ {0}
Secret == [data : BOOLEAN, key : Keys \cup {Bad}, prev : Keys \cup {Bad, Empty},
           stamp : Nat \cup {NoStamp}, disabled : BOOLEAN, ver : Nat]

ASSUME SecretAssumption == NoSecret \notin Secret

KeysTypeOK ==
    /\ {api, cached, loc} \subseteq Secret \cup {NoSecret}
    /\ stream \in Seq(Secret \cup {NoSecret})
    /\ version \in Nat /\ now \in 0 .. MaxTime /\ wake \in Nat
    /\ secretQueued \in BOOLEAN
    /\ pc \in {"idle", "rotate", "repair", "list", "patch"}
    /\ todo \subseteq Policies /\ placed \subseteq Policies
    /\ mark \in [Policies -> Nat \cup {NoStamp, Unset}]
    /\ queued \in [Policies -> BOOLEAN]
    /\ ppc \in [Policies -> {"idle", "create", "write"}]
    /\ got \in [Policies -> Keys \cup {Bad, Empty}]
    /\ replica \in [Policies -> Keys \cup {Bad, NoReplica}]
    /\ listed \in [Policies -> BOOLEAN]
    /\ missed \in [Policies -> SUBSET Keys] /\ unmoved \in [Policies -> SUBSET Keys]
    /\ events \in 0 .. MaxEvents

-----------------------------------------------------------------------------
Event == events < MaxEvents /\ events' = events + 1
NoEvent == UNCHANGED events

(* The API server stores a version; the informer delivers it later.         *)
Stored(s) == [s EXCEPT !.ver = version + 1]
Store(s) == /\ version' = version + 1
            /\ api' = IF s = NoSecret THEN s ELSE Stored(s)
            /\ stream' = Append(stream, api')
NewKey == version + 1
StoredKey(s) == IF s = NoSecret THEN Empty ELSE s.key

(* Keys the policies have not obtained pass them by.                        *)
PassedBy(m, ps, k) ==
    [p \in Policies |-> IF p \in ps /\ k \in Keys /\ got[p] \notin {k, Empty} THEN m[p] \cup {k} ELSE m[p]]

(* getNextRotationFromNow, with the annotation that cannot be parsed.       *)
Due(s) == s.stamp # NoStamp => s.stamp + Period <= now
Rotatable(s) == Due(s) \/ s.key = Bad

(* The delaying queue keeps the earlier of two times.                       *)
Bug_RequeueAt(t) == wake' = now - t
Bug_NoTimer(t) == wake' = wake

RequeueAt(t) == wake' = IF wake # 0 /\ wake <= t THEN wake ELSE t

-----------------------------------------------------------------------------
(* The encryption-keys controller.                                           *)

Take == /\ pc = "idle" /\ secretQueued
        /\ UNCHANGED <<api, stream, version, cached, now, mark, placed, queued, ppc, got, replica,
                       listed, missed, unmoved>>

(* Nothing to do, and the assignment to the nil map of a Secret without data *)
(* panics: the recovered panic is an error, and the request is retried.      *)
ReconcileGone ==
    /\ Take /\ NoEvent
    /\ cached = NoSecret
    /\ secretQueued' = FALSE
    /\ UNCHANGED <<wake, pc, loc, todo>>

ReconcileNoData ==
    /\ Take /\ NoEvent
    /\ cached # NoSecret /\ ~cached.disabled /\ ~cached.data
    /\ secretQueued' = TRUE
    /\ UNCHANGED <<wake, pc, loc, todo>>

ReconcileDisabled ==
    /\ Take /\ NoEvent
    /\ cached # NoSecret /\ cached.disabled
    /\ secretQueued' = FALSE
    /\ pc' = "list" /\ loc' = cached
    /\ UNCHANGED <<wake, todo>>

ReconcileNotDue ==
    /\ Take /\ NoEvent
    /\ cached # NoSecret /\ ~cached.disabled /\ ~Rotatable(cached)
    /\ secretQueued' = FALSE
    /\ IF cached.prev = Bad
       THEN pc' = "repair" /\ loc' = [cached EXCEPT !.prev = Empty] /\ UNCHANGED wake
       ELSE RequeueAt(cached.stamp + Period) /\ UNCHANGED <<pc, loc>>
    /\ UNCHANGED todo

(* rotateKey up to the Update; a bad key is not kept as the previous one.    *)
Bug_DropPrevious(s) == [s EXCEPT !.stamp = now]

Rotated(s) == [s EXCEPT !.prev = IF s.key = Bad THEN Empty ELSE s.key, !.stamp = now]

ReconcileRotate ==
    /\ Take /\ NoEvent
    /\ cached # NoSecret /\ ~cached.disabled /\ cached.data /\ Rotatable(cached)
    /\ secretQueued' = FALSE
    /\ pc' = "rotate"
    /\ loc' = Rotated(cached)
    /\ UNCHANGED <<wake, todo>>

(* The Update of a rotation or a repair: it succeeds when the copy is of the *)
(* version stored.  A conflict, and an error before or after the Update took *)
(* effect, is retried; after it, the new key looks as if all was done.       *)
Updated == IF pc = "rotate" THEN [loc EXCEPT !.key = NewKey] ELSE loc
Bug_NoConflict == api = NoSecret
Conflict == api # NoSecret => api.ver # loc.ver
AfterUpdate == UNCHANGED <<cached, now, todo, mark, placed, queued, ppc, got, replica,
                           listed, unmoved>>

UpdateOK ==
    /\ pc \in {"rotate", "repair"} /\ ~Conflict
    /\ Store(Updated)
    /\ IF pc = "rotate" THEN pc' = "list" /\ loc' = api' /\ UNCHANGED wake
       ELSE pc' = "idle" /\ loc' = NoSecret /\ RequeueAt(loc.stamp + Period)
    /\ NoEvent /\ AfterUpdate /\ UNCHANGED <<secretQueued, missed>>

UpdateFails ==
    /\ pc \in {"rotate", "repair"}
    /\ pc' = "idle" /\ loc' = NoSecret /\ secretQueued' = TRUE
    /\ \/ Conflict /\ NoEvent /\ UNCHANGED <<api, stream, version, missed>>
       \/ ~Conflict /\ Event /\ UNCHANGED <<api, stream, version, missed>>
       \/ ~Conflict /\ Event /\ Store(Updated) /\ missed' = PassedBy(missed, Policies, Updated.key)
    /\ AfterUpdate /\ UNCHANGED wake

(* triggerTemplateUpdate: the replicas in the cache that have an             *)
(* initialization vector; a List that fails is logged and finds none.        *)
Trigger(found) ==
    /\ todo' = found
    /\ pc' = "patch"
    /\ missed' = PassedBy(missed, Policies \ found, loc.key)
    /\ UNCHANGED <<secretVars, cached, now, wake, secretQueued, loc, mark, placed,
                   queued, ppc, got, replica, listed, unmoved>>

ListOK    == pc = "list" /\ NoEvent /\ Trigger({p \in Policies : listed[p]})
ListFails == pc = "list" /\ Event /\ Trigger({})

(* The merge patch of a root policy: the value is made from the time of the  *)
(* rotation, and an equal value is no change and no event.                   *)
PatchOK(p) ==
    /\ pc = "patch" /\ p \in todo
    /\ todo' = todo \ {p}
    /\ mark' = [mark EXCEPT ![p] = loc.stamp]
    /\ queued' = [queued EXCEPT ![p] = @ \/ mark[p] # loc.stamp]
    /\ unmoved' = IF mark[p] = loc.stamp THEN PassedBy(unmoved, {p}, loc.key) ELSE unmoved
    /\ NoEvent
    /\ UNCHANGED <<secretVars, cached, now, wake, secretQueued, pc, loc, placed, ppc,
                   got, replica, listed, missed>>

PatchFails(p) ==
    /\ pc = "patch" /\ p \in todo
    /\ todo' = todo \ {p}
    /\ missed' = PassedBy(missed, {p}, loc.key)
    /\ Event
    /\ UNCHANGED <<secretVars, cached, now, wake, secretQueued, pc, loc, mark, placed,
                   queued, ppc, got, replica, listed, unmoved>>

TriggerDone ==
    /\ pc = "patch" /\ todo = {}
    /\ pc' = "idle" /\ loc' = NoSecret
    /\ IF loc.disabled THEN UNCHANGED wake ELSE RequeueAt(loc.stamp + Period)
    /\ NoEvent
    /\ UNCHANGED <<secretVars, cached, now, secretQueued, todo, mark, policyVars, missed, unmoved>>

-----------------------------------------------------------------------------
(* The replicated-policy reconciler, as far as encryption goes.              *)

ObtainKey(p, k) ==
    /\ got' = [got EXCEPT ![p] = k]
    /\ missed' = [missed EXCEPT ![p] = {StoredKey(s) : s \in ToSet(stream)} \cap (Keys \ {k})]
    /\ unmoved' = [unmoved EXCEPT ![p] = {}]

(* getEncryptionKey: the Secret in the cache, or a new one.                  *)
GetKey(p) ==
    /\ ppc[p] = "idle" /\ queued[p]
    /\ queued' = [queued EXCEPT ![p] = FALSE]
    /\ IF cached = NoSecret
       THEN ppc' = [ppc EXCEPT ![p] = "create"] /\ UNCHANGED <<got, missed, unmoved>>
       ELSE ppc' = [ppc EXCEPT ![p] = "write"] /\ ObtainKey(p, cached.key)
    /\ NoEvent
    /\ UNCHANGED <<secretVars, cached, now, keyVars, mark, placed, replica, listed>>

Requeue(p) == /\ ppc' = [ppc EXCEPT ![p] = "idle"]
              /\ queued' = [queued EXCEPT ![p] = TRUE]

CreateKey(p) ==
    /\ ppc[p] = "create" /\ api = NoSecret
    /\ Store([data |-> TRUE, key |-> NewKey, prev |-> Empty, stamp |-> now,
              disabled |-> FALSE, ver |-> 0])
    /\ \/ /\ NoEvent
          /\ ppc' = [ppc EXCEPT ![p] = "write"]
          /\ got' = [got EXCEPT ![p] = NewKey]
          /\ missed' = [PassedBy(missed, Policies, NewKey) EXCEPT ![p] = {}]
          /\ unmoved' = [unmoved EXCEPT ![p] = {}]
          /\ UNCHANGED queued
       \/ /\ Event /\ Requeue(p)
          /\ missed' = PassedBy(missed, Policies, NewKey)
          /\ UNCHANGED <<got, unmoved>>
    /\ UNCHANGED <<cached, now, keyVars, mark, placed, replica, listed>>

(* The Create fails, or finds the Secret; the second Get asks the cache too. *)
AlreadyExists(p) ==
    /\ ppc[p] = "create" /\ api # NoSecret
    /\ IF cached = NoSecret
       THEN Requeue(p) /\ UNCHANGED <<got, missed, unmoved>>
       ELSE /\ ppc' = [ppc EXCEPT ![p] = "write"]
            /\ ObtainKey(p, cached.key)
            /\ UNCHANGED queued
    /\ NoEvent
    /\ UNCHANGED <<secretVars, cached, now, keyVars, mark, placed, replica, listed>>

CreateFails(p) ==
    /\ ppc[p] = "create" /\ Event /\ Requeue(p)
    /\ UNCHANGED <<secretVars, cached, now, keyVars, mark, placed, got, replica, listed,
                   missed, unmoved>>

(* The replica is created or updated; a key that is no key leaves an error   *)
(* in the template, which is not retried, and the initialization vector.     *)
WriteReplica(p) ==
    /\ ppc[p] = "write"
    /\ \/ NoEvent /\ replica' = [replica EXCEPT ![p] = got[p]]
          /\ ppc' = [ppc EXCEPT ![p] = "idle"] /\ UNCHANGED queued
       \/ Event /\ Requeue(p) /\ replica' \in {replica, [replica EXCEPT ![p] = got[p]]}
    /\ UNCHANGED <<secretVars, cached, now, keyVars, mark, placed, got, listed, missed, unmoved>>

-----------------------------------------------------------------------------
(* Informers, the clock and the timer.                                       *)

SeeSecret ==
    /\ stream # <<>>
    /\ cached' = Head(stream) /\ stream' = Tail(stream)
    /\ secretQueued' = TRUE
    /\ NoEvent
    /\ UNCHANGED <<api, version, now, wake, pc, loc, todo, mark, policyVars, missed, unmoved>>

SeeReplica(p) ==
    /\ replica[p] # NoReplica /\ ~listed[p]
    /\ listed' = [listed EXCEPT ![p] = TRUE]
    /\ NoEvent
    /\ UNCHANGED <<secretVars, cached, now, keyVars, mark, placed, queued, ppc, got, replica,
                   missed, unmoved>>

Tick ==
    /\ now < MaxTime /\ now' = now + 1
    /\ NoEvent
    /\ UNCHANGED <<secretVars, cached, keyVars, mark, policyVars, missed, unmoved>>

Timer ==
    /\ wake # 0 /\ wake <= now
    /\ wake' = 0 /\ secretQueued' = TRUE
    /\ NoEvent
    /\ UNCHANGED <<secretVars, cached, now, pc, loc, todo, mark, policyVars, missed, unmoved>>

-----------------------------------------------------------------------------
(* Users.                                                                    *)

PlacePolicy(p) ==
    /\ Event
    /\ placed' = placed \cup {p} /\ queued' = [queued EXCEPT ![p] = TRUE]
    /\ UNCHANGED <<secretVars, cached, now, keyVars, mark, ppc, got, replica, listed, missed,
                   unmoved>>

(* Edits of the Secret, invalid ones too.  A key that a user puts in place   *)
(* is announced to the policies only while the rotation is disabled.         *)
EditedSecrets ==
    {[api EXCEPT !.key = Bad], [api EXCEPT !.prev = Bad], [api EXCEPT !.stamp = NoStamp],
     [api EXCEPT !.disabled = ~@],
     [api EXCEPT !.key = Bad, !.prev = Empty, !.data = FALSE]}

EditSecret ==
    /\ Event /\ api # NoSecret
    /\ \E s \in EditedSecrets \ {api} :
          /\ s.prev = Bad => s.data
          /\ Store(s)
          /\ missed' = IF api.disabled /\ ~s.disabled THEN PassedBy(missed, Policies, s.key)
                       ELSE missed
    /\ UNCHANGED <<cached, now, keyVars, mark, policyVars, unmoved>>

ReplaceKey ==
    /\ Event /\ api # NoSecret
    /\ \E t \in {api.stamp, now} :
          Store([api EXCEPT !.prev = IF api.key = Bad THEN Empty ELSE api.key,
                                   !.key = NewKey, !.data = TRUE, !.stamp = t])
    /\ missed' = PassedBy(missed, Policies, IF api.disabled THEN api.key ELSE NewKey)
    /\ UNCHANGED <<cached, now, keyVars, mark, policyVars, unmoved>>

DeleteSecret ==
    /\ Event /\ api # NoSecret
    /\ Store(NoSecret)
    /\ UNCHANGED <<cached, now, keyVars, mark, policyVars, missed, unmoved>>

(* A restart: the caches are filled before the controllers start, and every  *)
(* object in them is queued.                                                 *)
Bug_RestartQueue == [p \in Policies |-> FALSE]

RestartQueue == [p \in Policies |-> p \in placed]

Restart ==
    /\ Event
    /\ cached' = api /\ stream' = <<>>
    /\ secretQueued' = (api # NoSecret) /\ wake' = 0
    /\ pc' = "idle" /\ loc' = NoSecret /\ todo' = {}
    /\ ppc' = [p \in Policies |-> "idle"]
    /\ queued' = RestartQueue
    /\ listed' = [p \in Policies |-> replica[p] # NoReplica]
    /\ UNCHANGED <<api, version, now, mark, placed, got, replica, missed, unmoved>>

-----------------------------------------------------------------------------
KeysInit ==
    /\ api = NoSecret /\ cached = NoSecret /\ loc = NoSecret /\ stream = <<>>
    /\ version = 0 /\ now = 0 /\ wake = 0
    /\ secretQueued = FALSE /\ pc = "idle" /\ todo = {}
    /\ mark = [p \in Policies |-> Unset]
    /\ placed \in {Policies, {CHOOSE p \in Policies : TRUE}}
    /\ queued = [p \in Policies |-> p \in placed]
    /\ ppc = [p \in Policies |-> "idle"]
    /\ got = [p \in Policies |-> Empty]
    /\ replica = [p \in Policies |-> NoReplica]
    /\ listed = [p \in Policies |-> FALSE]
    /\ missed = [p \in Policies |-> {}] /\ unmoved = [p \in Policies |-> {}]
    /\ events = Cardinality(placed)

Update  == UpdateOK \/ UpdateFails
RotationStep ==
    \/ ReconcileGone \/ ReconcileNoData \/ ReconcileDisabled \/ ReconcileNotDue
    \/ ReconcileRotate \/ Update \/ ListOK \/ ListFails
    \/ \E p \in Policies : PatchOK(p) \/ PatchFails(p)
    \/ TriggerDone

PolicyStep(p) ==
    GetKey(p) \/ CreateKey(p) \/ AlreadyExists(p) \/ CreateFails(p) \/ WriteReplica(p)

KeysNext ==
    \/ RotationStep
    \/ \E p \in Policies : PolicyStep(p) \/ SeeReplica(p) \/ PlacePolicy(p)
    \/ SeeSecret \/ Tick \/ Timer
    \/ EditSecret \/ ReplaceKey \/ DeleteSecret \/ Restart

(* The worker, the informer of the Secret and the timer keep running; the    *)
(* other reconcilers, users, the clock and failures owe nothing here.        *)
KeysFairness ==
    WF_keysVars(RotationStep) /\ WF_keysVars(SeeSecret \/ Timer)

KeysSpec == KeysInit /\ [][KeysNext]_keysVars /\ KeysFairness

-----------------------------------------------------------------------------
AtRest ==
    /\ stream = <<>> /\ ~secretQueued /\ pc = "idle"
    /\ \A p \in Policies : /\ ppc[p] = "idle" /\ ~queued[p]
                           /\ listed[p] = (replica[p] # NoReplica)

Encrypted == {p \in Policies : replica[p] # NoReplica}

(* rotateKey, triggerTemplateUpdate, getEncryptionKey: at rest a replica is  *)
(* encrypted with the key of the Secret, unless the trigger for just that    *)
(* key passed it by: it was not listed, its patch failed or changed nothing, *)
(* or its reconcile read the cache before the key was in it.  A crash        *)
(* between rotation and trigger is no exception.                             *)
CurrentUnlessMissed ==
    AtRest /\ api # NoSecret /\ api.key # Bad =>
      \A p \in Encrypted :
        replica[p] = api.key \/ api.key \in missed[p] \cup unmoved[p]

(* rotateKey: previousKey makes one missed rotation harmless.  At rest the   *)
(* managed cluster can decrypt a replica with one of the keys of the Secret, *)
(* unless the policy missed every one of them.                               *)
DecryptableAfterOneMiss ==
    AtRest /\ api # NoSecret /\ api.key # Bad =>
      \A p \in Encrypted :
        \/ replica[p] \in {api.key, api.prev}
        \/ {api.key, api.prev} \cap Keys \subseteq missed[p] \cup unmoved[p]

(* rotateKey, getEncryptionKey, Reconcile: for all the copies the two        *)
(* controllers read late, write back or lose, the Secret is a key ring: a    *)
(* rotation keeps the key that was current when it is stored, and its key is *)
(* new.                                                                      *)
Ring == INSTANCE KeyRing WITH
    current  <- IF api = NoSecret THEN Empty ELSE api.key,
    previous <- IF api = NoSecret THEN Empty ELSE api.prev,
    last     <- version
ImplementsKeyRing == Ring!RingSpec

(* Reconcile of the encryption-keys controller: a key that is due or         *)
(* unusable is eventually replaced, by the timer, the events of the Secret   *)
(* and the retries, unless the Secret has no data or its rotation is off.    *)
NeedsRotation ==
    api # NoSecret /\ api.data /\ ~api.disabled /\ Rotatable(api)
RotatesEventually == []<>~NeedsRotation

(* Reconcile, "In case the key was manually rotated, trigger a template      *)
(* update": with the rotation disabled, a key an administrator put in place  *)
(* reaches every listed policy.                                              *)
ManualKeyReachesPolicies ==
    AtRest /\ api # NoSecret /\ api.key # Bad /\ api.disabled =>
      \A p \in Encrypted : replica[p] = api.key \/ api.key \in missed[p]

=============================================================================
