# A TLA+ verification of governance-policy-propagator

The propagator runs on a hub cluster. For every root `Policy` it keeps one
*replicated policy* in the namespace of each managed cluster the policy is placed
on, gathers compliance back into the root policy's status, and runs a few
helper controllers (encryption keys, Ansible automation, PolicySets, metrics).
This directory models all of these but the metrics, checks the models with TLC on small instances
and proves part of the results with TLAPS for all instances.

    tlc -config ReplicatedRaces.cfg MCReplicatedPolicy     # one run
    tlapm ReplicatedPolicy_proofs.tla                      # one module's proofs

`PROJECT.json` lists the runs, the source lines behind each definition, the mutants
(operators named `Bug_...`: plausible bugs that each property must catch), the
hazards, the findings and the theorems.

## 1. Inventory

| component | state | operations | talks to | hard part |
|---|---|---|---|---|
| replicated-policy controller (`controllers/propagator/replicatedpolicy_*.go`) | `ResourceVersions` map with a lock per key, work queue | `Reconcile`, `cleanUpReplicated`, `recordDeleted`, three predicates, managed-cluster refresh | API server, informer cache, template resolvers | predicates and reconciler race on the map; the cache is late; markers must go again |
| placement computation (`controllers/common`, `singleClusterDecision`) | none, reads caches | `GetClusterDecisions`, `singleClusterDecision`, `computeRemainingBindings` | used by all controllers | two answers to one question; the order of lists |
| root-policy-spec controller (`rootpolicy_*.go`, `propagation.go`) | `RootPolicyLocks`, channel to the replicated-policy controller | `Reconcile`, `handleRootPolicy`, `updateExistingReplicas` | shares the lock and the status with the status controller | reads a status another controller trims |
| root-policy-status controller (`controllers/rootpolicystatus`) | root policy's status | `Reconcile`, mappers | as above | two writers from late caches |
| event handlers and mappers (`replicatepolicy_p*_eventHandler.go`, `policyset_handler.go`, `filters.go`, `policy_mapper.go`) | none | one per watched kind | fill the queues | compare old and new objects with caches that have moved on |
| hub template resolvers (`template_utils.go`) | resolvers by account, reference counts, policy-to-account map, `globalLock` | `GetResolver`, `RemoveReplicatedPolicy`, clean-up goroutine, `onBackgroundError` | replicated-policy reconciler, token API | asynchronous clean-up against new users, failures in the background |
| replica contents (`replication.go`) | none | `buildReplicatedPolicy`, `canonicalizeDependencies` | | pure |
| encryption (`encryption.go`) and encryption-keys controller (`controllers/encryptionkeys`) | Secret with the key and the one before, date of the rotation, trigger annotation of root policies | `getEncryptionKey`, `Reconcile`, `rotateKey`, `triggerTemplateUpdate` | replicated policies | both read the Secret late; crash or error between rotation and trigger; errors that are only logged |
| policy automation (`controllers/automation`) | `clustersWithEvent` in the status, Ansible jobs, a timer | `Reconcile` in modes once and everyEvent and for the rerun annotation, mapper, predicates | status of the root policy | the job is created before it is recorded; whole seconds; events during the delay |
| PolicySet status (`controllers/policyset`) | status of the set | `Reconcile`, `processPolicySet`, mappers, predicates | statuses of policies, bindings, decisions | reads statuses another controller is writing; patches from an old copy of its own status |
| metrics, webhooks, manager (`main.go`) | gauges | one reconcile each | | sequential |

What makes each correct: the cluster namespaces hold exactly what the inputs ask
for once everything has settled; the status lists the decided clusters; in-memory
maps do not leak and do not hide changes; nothing loops or waits forever; counts
equal users; a policy with hub templates is always watched by a running resolver;
encrypted values can be decrypted with the keys that are there; a violation starts its
automation once; a set's compliance is that of its policies.

## 2. Modules

**`ReplicatedPolicy`** models one key of the replicated-policy controller. `hist` is the
sequence of versions at the API server (a resourceVersion is an index), `seen` the
informer's cache, `events` what the predicates have not handled, `entry` the key's
value in `ResourceVersions` (nothing, a version, or `deleted-<rv>`), `queue` the key in the
work queue, `pc`, `read`, `desired`, `reply`, `written` the reconciler. Every API call
is one step and its return another, so other parties act between the call and
the record of it; the entry is locked in between, which is why the predicates wait
(`Locked`). Contents are single values: spec, labels and annotations matter only
as equal or different. A status update by the managed cluster is a foreign write with
equal content. `MCReplicatedPolicy` adds the symmetry of contents.

**`Placement`** holds the pure part: the two computations of a policy's clusters,
exclusions, overrides, restricted bindings and remaining bindings, as operators
over cached bindings, PolicySets and decisions, and the edits of these inputs. It has no
specification of its own: its properties are checked where the inputs change, in `RootPolicy`.

**`RootPolicy`** extends `Placement` with the events of each edit, the handlers with their
queues, the spec and the status controller with the lock they share, and the root
policy's status at the API server and in the cache. A reconcile of a replicated
policy is one step here; `ReplicatedPolicy` has its detail. Compliance states are
left to `PolicySet`.

**`TemplateResolvers`** models the resolvers of service accounts: `account` is
`policyToServiceAccount`, `current` the map `TemplateResolvers`, `ref`/`count` the shared
counters, `canceled`/`stopped`/`nilled` the three ways in which a resolver is out of
use, `readers` the read lock. Sections under the write lock are one step that waits for
the readers; sections under the read lock are split. The reconcile around it
is modelled as far as it decides when the two entry points are called.

**`EncryptionKeys`** models the key of one managed cluster: `api`, `stream` and `cached` are the
Secret at the server, on its way to the cache and in it; `pc`, `loc` and `todo` the
encryption-keys reconcile (read, Update, List, one Patch per policy); `ppc`, `got` and `replica`
the part of the replicated-policy reconcile that gets or creates the key and writes
what it encrypts. Keys are named by the resourceVersion that first stored them. The
history variables `missed` and `unmoved` record for each policy the keys that a
trigger passed it by with, and those announced by a value the policy already had. A key
that is replaced by hand while the rotation is disabled, before the policy obtained it,
has passed it by too.

**`KeyRing`** is what the Secret promises to the cluster that decrypts with it: a rotation is
one step that makes the current key the previous one and puts a fresh one in its
place. `EncryptionKeys` implements it (`ImplementsKeyRing`), with the two keys at the API server
as its state; the late copies, conflicts, retries and lost answers have no
counterpart in it.

**`PolicyAutomation`** models one PolicyAutomation and its policy, both with cache and stream.
A reconcile is split at each API call: the owner reference, the job, the Update after
it, the status. `evs` is `clustersWithEvent`; `wake` the requeue at the end of a delay. The
clock `now` has `Second` ticks in a second: times in the status are cut to whole seconds
(`RFC3339`) and compared with a clock that is not. The policy is violated when the
PolicyAutomation is created, one tick before a whole second. A
job has the generation and resourceVersion of the copy it was made from, which is what
`MatchPAGeneration` and `MatchPAResourceV` ask for. The history `lastRun` of a cluster ends when its
entry is dropped from the status after the delay (`Forgotten`): from then on the code has
no record to keep the delay by.

**`PolicySet`** models one set: its spec and status, the policies with the status that the
root policy's controllers write (`RootStatus`, one step per policy, later than the
change), bindings, decisions and reported states. The reconcile visits one policy per
step (`ProcessChild`) with `acc` as the local variables of `processPolicySet`, then sends
the merge patch of what differs from the copy it read. `MCPolicySet` gives the list of
policies and the symmetry of clusters.

**`ReplicatedPolicy_proofs`, `Placement_proofs`, `TemplateResolvers_proofs`, `EncryptionKeys_proofs`,
`PolicyAutomation_proofs`, `PolicySet_proofs`, `RootPolicy_proofs`** hold the theorems about the module they
are named after; **`SequenceLemmas`** holds what they need to know of lists and channels.

## 3. Runs

| run | what it asks | states |
|---|---|---|
| `replicated_races` | two changes of the inputs, a foreign write and a failing call in every interleaving | 3.1 M |
| `replicated_restart` | a restart, a ManagedCluster that comes or goes, a relisting informer; convergence and rest | 280 k |
| `root_edits` | two edits of any kind with one failing status update | 3.1 M |
| `root_bindings` | every combination of two bindings with all their options, a PolicySet and decisions, in both list orders, and one edit; settling | 1 M |
| `template_resolvers` | two policies sharing an account, three changes, one failure | 580 k |
| `encryption_keys` | one or two policies from the start, and a third event or a second and third among placements, edits of the Secret, failing calls and restarts; two periods of time | 1.8 M |
| `policy_automation` | one cluster, two ticks a second, delays of 0 and 2 seconds, three changes, failures or restarts | 2.4 M |
| `policy_set` | two policies, two clusters, one binding, two changes of any kind or failures | 3.7 M |
| `forgotten_entry`, `binding_update`, `manual_rotation`, `early_start` | expected violations, see section 6 | |

Properties of `ReplicatedPolicy`: a marker always names an object that is gone
(`MarkerSound`), or a live policy would be taken for a deleted one; a key with a marker
comes back (`TombstoneRevisited`) and at rest no entry is left for an object that does not
exist (`MapBounded`); at rest the namespace holds what is wanted (`ConvergedUnlessLost`);
the controller comes to rest (`ComesToRest`). The exception `lost` is a history variable:
a predicate skipped a change while a reconcile that had not seen it was running, or
a relisting informer merged versions and the change was skipped.

Properties of `Placement`: what `singleClusterDecision` replicates is decided
(`ReplicatedIsDecided`); remaining bindings explain a replica that stays although it is
excluded (`RemainingExplains`): where the policy is placed all of them, restricted or not, place it,
and where it is not they are restricted ones; and where the policy is placed they do not depend on
the order in which the cache lists the bindings (`RemainingStable`), although a restricted binding counts for
those listed after it. The exception to the last is a restricted binding that names a set excluding a
cluster its own placement does not select.

Properties of `RootPolicy`: settled replicas are the desired ones (`ReplicasUnlessGap`), the
settled status is right without exception (`StatusCorrect`), and the controllers always
settle (`AlwaysSettles`). The gaps are named in the module: `Overtaken` (an edit whose
handlers run against inputs that have changed again), `ExclusionBlind` (the
comparison of old and new binding ignores exclusions) and `Unnamed` (the spec controller
looks for replicas in a status or a cached list that does not name them).

Properties of `TemplateResolvers`: reference counts equal the users at every moment
(`CountExact`), a resolver found under the read lock is neither nil nor out of the map
(`NeverNil`), at rest a policy is watched by the running resolver of its account
(`ServedUnlessMissed`) and a running resolver has a user (`CollectedUnlessNeverStored`),
and everything comes to rest (`EventuallyRests`).

Properties of `EncryptionKeys`: at rest a replica is encrypted with the key of the Secret unless
just that key passed it by (`CurrentUnlessMissed`), so that a crash between rotation and
trigger is harmless; with one key missed it can still be decrypted with `previousKey`
(`DecryptableAfterOneMiss`); `ImplementsKeyRing`; and a key that is due or unusable is
eventually replaced (`RotatesEventually`).

Properties of `PolicyAutomation`: in mode once a generation has at most one job whatever fails, and
a rerun one for each resourceVersion (`AtMostOneJob`); at rest a violated policy has had a job of mode once in the
present generation, unless a manual job of the generation was created, which the code takes for
it, or the last reconcile ended at the rerun annotation or at a disabled policy (`OnceServed`); in mode everyEvent a
violation that a status recorded has had a job at rest or is waiting for its time, with the same
exemption of the last reconcile and one for a delay taken back meanwhile
(`ServedUnlessUnnoticed`); no second job for a cluster starts a second or more inside the delay
unless the record of the first was lost or not yet read (`DelayRespected`); the
controller comes to rest (`AutomationRests`). What `DelayRespected` grants, less than a second, is
what `early_start` shows to happen.

Properties of `PolicySet`: at rest compliance is the worst state of the enabled policies on the
clusters of the set that are not excluded, or nothing while one of them is silent
(`ComplianceUnlessOutdated`), and the deleted, disabled, silent and pending policies are the ones listed
(`MessageUnlessUnseen`). Both compare with a definition from the inputs. The exceptions
are `outdated` (the last reconcile compared with a status of the set that was not the
stored one) and `unseen` (a policy changed without an event for the set, since its own status
did not name the set).

### Bounds and why they are enough

One key suffices for `ReplicatedPolicy`: keys share no state but the map itself, whose
entries have locks of their own. Two changes allow a content to be replaced and taken
away again while the first change is still under way; one foreign write and one
error can each fall between any two steps. In the restart run one content is enough,
as a policy is wanted or not; with it the graph stays small enough for liveness.
`Placement` needs two bindings for the interactions of a restricted with an
unrestricted one, of an excluding with a placing one and of an earlier with a later one; two
restricted bindings beside an unrestricted one are left to the theorem `OrderDoesNotMatter`. In `RootPolicy` clusters are independent of each other, so one is
used; two edits are the least that can overtake each other. Two policies and one account
reach every race on a resolver; with three changes one policy can join, and another
join and leave or come back; one background error can cancel a resolver and, late,
its successor. Two policies that both leave need more changes than the run has: that case
of `CountExact` and `CollectedUnlessNeverStored` is covered by the theorems only. `MaxResolvers` is never reached (a blocked policy would violate
`EventuallyRests`). In `EncryptionKeys` two policies are needed for the race of two creators and
for a trigger that reaches only one of them, and the time of two periods for two
rotations, the least that puts a missed key out of use. In `PolicyAutomation` two ticks a second tell
a time from its record, a delay of two seconds is the least within which a recovery is recorded
as later than the start and the violation can come back, and five ticks are
enough to see it end; clusters are independent but for sharing a status. With two ticks a job cannot come
early, which takes three (`early_start`). In `PolicySet`
two policies in a list show the gathering in list order and two clusters tell an
excluded one from the rest; every property compares against two changes that overlap
with a reconcile at any of its steps.

### Fairness

`EncryptionKeys` and `PolicyAutomation` need only that the worker and the informers with the timer
keep running, and the clock owes nothing. In the other modules
informers, handlers, timers, workers and background goroutines are goroutines that
keep running, so each has weak fairness. Strong fairness is used where a step waits for
a mutex that others take and release: the predicates (an `RWMutex` admits a
waiting reader before the next writer) and the two users of `RootPolicyLocks` (a
`sync.Mutex` hands over to a starving waiter). Users, crashes, failures and
foreign writers have none. `ComesToRest` assumes that the ManagedCluster stays in the
end and `AlwaysSettles` that status reports of replicas cease.

## 4. Proofs

For every set of contents and all bounds, from `ContentsAssumption`, `RelistAssumption` and
`BoundsAssumption`, `ReplicatedPolicy_proofs` shows `TypeCorrect` (`TypeOK`), `MarkersAreSound`
(`MarkerSound`), `RestIsConverged` (`ConvergedUnlessLost`) and, when ManagedClusters do not change
(`MaxClusters = 0`), `TombstonesAreRevisited` and `EntriesAreRemoved` (`MapBounded`). `MarkerSound`
is not inductive. The marker is written from the reconciler's locals after a call
returned, so the invariant `IInv` also says that a version the reconciler has read as
existing is one the API server produced (`ReadSound`), and that once a Delete has
answered "ok" or "not found" the version read is gone (`DeleteSound`). What is gone stays
gone because `hist` only grows.

`RestIsConverged` needs `ConvergeInv`, which says what a reconcile that is over relied on. While
nobody has the key, and no change of the inputs is to be handled, there is a version of the
object, perhaps an old one, that was as wanted, and every change of the content since is
in an event not yet handled or in a version the cache has not seen (`Based`); or the object is
not ours for now (`Foreign`); or an event on its way is bound to pass (`Noticed`). While a
reconcile runs, the version it read (`ReadBased`) and the one it wrote (`WriteSound`) are such versions.
The step that matters is a predicate that skips an event. A Create or Update skipped for its
resourceVersion is the reconciler's own, and the map never names a version beyond the
base. An Update skipped for its generation has changed nothing (`HistSound`). A Delete is
skipped for a marker only, and a marker is there only where nothing is wanted. `HistSound` also says that
versions of different contents have a change between them, kept step by step, so that no induction over
the versions is needed. `EntriesAreRemoved` adds that after an event that shows the object
the cache has it or its Delete event follows (`EventsChained`), and that an entry nobody will remove belongs to an
object the cache has or whose Delete event is to come (`EntryNeeded`). The assumption on ManagedClusters
is needed: a reconcile that leaves a policy alone as not ours keeps the marker of an earlier one, the Delete event
is then skipped, and a ManagedCluster created afterwards finds nothing to refresh, so
the marker stays (TLC finds this with `MaxClusters = 1`).

`Placement_proofs` holds facts about the operators of `Placement` in any state, for any
number of bindings, sets and clusters, which `RootPolicy_proofs` turns into `PlacedIsDecided`
(`ReplicatedIsDecided`), `RemainingAreExplained` (`RemainingExplains`) and `OrderDoesNotMatter` (`RemainingStable`). The
last two need that a list has every binding at some position and that
unrestricted bindings are gone through before restricted ones: a restricted binding that selects a cluster with
a replica is then reported wherever it stands in the list, and those not reported exclude nothing there.

`RootPolicy_proofs` is about any number of clusters, bindings, sets, placements, specs, edits and
failures (`SpecsAssumption`, `RootBoundsAssumption` and those of `Placement`): `RootTypeCorrect`;
`StatusIsCorrect` (`StatusCorrect`); `ReplicasAreDesired` (`ReplicasUnlessGap`). The invariant `SoundInv` says who is going
to put right what is not right yet: the status is right unless a reconcile of either
controller is under way, queued, or will be queued by an event on its way (`RootSoon`, `SetSoon`,
`StatusSoon`), a replica unless it is queued, named by the reconcile under way or by an
event (`ReplicaSoon`), and a copy under the lock is the root policy unless a change of it is
still to be seen (`CopySound`). The handlers compute from the inputs as they are when
they run, so an event counts by what its handler would do *now*. An edit can change what
the events before it are worth: then its own event counts for the same clusters, the
edit of a set queues the root policy altogether, or it is one of the gaps. What an edit
changes, its own event is about (`BindingEditKept`, `DecisionsEditKept`, `SetEditKept`). That the
spec reconciler reaches every replica that has to change needs `ReplicasDecided`, the lemma behind `PlacedIsDecided`: it sends events
to the decided clusters only.

`TemplateResolvers_proofs` is about any number of policies, accounts, changes and failures
(`AccountsAssumption`, `ResolverBoundsAssumption`). `FoundIsNeverNil` (`NeverNil`) rests on `RInv`: a nil
resolver is marked canceled, the map leads to resolvers started for the account, the read lock is held
only at the two steps that follow a look-up, and a reconcile on its way to a
resolver has an account; what sets a resolver to nil or changes the map finds no reader.
`ResolversTypeCorrect` is the type invariant. `ReferencesCounted` (`CountExact`) needs `CountInv`: resolvers
that share a counter have one account, a counter nobody has is 0, a resolver that is neither
canceled nor in the map does not exist (so a clean-up never removes a successor), and a
policy about to add its reference holds the read lock and the account's resolver.
`ResolversCollected` (`CollectedUnlessNeverStored`) adds `CollectInv`: while a running resolver has no
user, the last policy to leave has still to look at the counter or a clean-up waits for the lock.
`PoliciesServed` (`ServedUnlessMissed`) adds `ServedInv`: a policy whose resolver is canceled is
queued, about to be, or missed, or a goroutine of `onBackgroundError` has yet to list it.

`EncryptionKeys_proofs` is about any finite set of policies and any period (`KeyAssumption`,
`PeriodAssumption`, `PoliciesAssumption`, `EncryptionBounds`, `SecretAssumption`): `KeysTypeCorrect`; `KeyRingRefined`, that
every step is a step of `KeyRing` or leaves the two keys alone; `ReplicasCurrent`
(`CurrentUnlessMissed`); `ReplicasDecryptable` (`DecryptableAfterOneMiss`). An Update is safe because a copy
that would not be in conflict was made of the version stored (`CopySound`), for which every
version on its way must be one of the past, and the one stored if it has its resourceVersion
(`SecretInv`). The claims about replicas need, for each policy, what it obtained last and
who is going to tell it of a newer key (`PolicyInv`).

`PolicyAutomation_proofs` is about any clusters, delays and length of a second (`DelaysAssumption`, `SecondAssumption`,
`AutomationBounds`, `EventAssumption`): `AutomationTypeCorrect`; `JobsNotRepeated` (`AtMostOneJob`); `DelayKept` (`DelayRespected`);
`OnceHasItsJob` (`OnceServed`); `EventsAreServed` (`ServedUnlessUnnoticed`). All rest on `CopiesInv`: a copy has the spec stored if it has its
generation, and of two versions in the stream the later has a new generation exactly when it has
a new spec. A reconcile in mode once that is about to create a job has looked for one
of its generation, or is a rerun; a status about to be written drops only entries whose
delay is over or less than a second from it, since a time as recorded is less than a second before the time itself
(`Truncation`); a violation in mode once has a job of the generation or is going to be looked at, and that job
is not one of mode everyEvent, since these belong to generations in that mode (`EventJobsSound`).
For mode everyEvent (`ServedInv`) a violation need not be followed through a reconcile: one that started
too early to know of it, or with an old spec, is followed by another (`LookSound`); one that
knows of it creates the job or has an entry for the cluster (`PathSound`), and if the status
knows that the cluster had recovered, that entry says so (`EntriesSound`), so the end of the delay is among
the times to wake up at. Only while no reconcile runs must each violation be accounted for (`IdleSound`).

`PolicySet_proofs` is about any policies, bindings, clusters and lists (`StatesAssumption`,
`ListsAssumption`, `SetBounds`, `NoObjAssumption`): `SetTypeCorrect`; `SetComplianceCorrect`
(`ComplianceUnlessOutdated`); `SetMessageCorrect` (`MessageUnlessUnseen`). The difficulty is that policies are visited one by one
while bindings are gathered from the ones visited so far. The invariant `Sound` says of what
was gathered that each binding still is in the status of some policy, that the
decisions of a binding that names the set are as looked up, and that each policy
visited and not unseen has the state it was found in, on the clusters of *some* of the
bindings gathered, its own among them. It holds while the set is not queued, because
whatever would disturb it queues the set or leaves the policy unseen. At rest every policy of the list
has all bindings of the set in its status, so that "some" is "all".

Proving showed three histories to be too weak for instances larger than the runs': a key
replaced by hand while disabled was not counted as missed, `lastRun` outlived the
entry the code keeps the delay by, and a policy that a list names twice was no longer unseen after its second
visit, although both findings are in the message. All three are exceptions that the properties name, and they
were corrected in the models.

The invariants were checked with TLC before they were proved, on the instances of the runs.

Only model-checked: liveness and everything that depends on fairness
(`ComesToRest`, `AlwaysSettles`, `EventuallyRests`, `RotatesEventually`, `AutomationRests`), which is out of the
prover's reach. Every safety property of a passing run is a theorem.

## 5. What is abstracted

* Hub templates, encryption and dynamic watches are calls that succeed or fail; their
  results are part of a content.
* A change of root policy, binding or decision reaches `ReplicatedPolicy` as one change of
  `want` whose handlers run later.
* Errors of API calls may come before or after the call took effect.
* The bounded channel between the controllers (1024 places) is unbounded: its reader
  only adds to a queue and never waits for a sender.
* `TemplateResolvers` has no foreign writers and treats a deletion by the controller itself
  as known, which is what `MarkerSound` is about. Errors of `UncacheWatcher` are left out
  (they are logged, or retried with the deletion), and so is shutdown.
* AES and the initialization vector: a key is usable or `Bad`, a replica has the vector from its
  first encryption on. A Secret edited by hand may have any of these; a key put in place by hand
  keeps the one before as `previousKey`.
* `ReplicatedPolicy` is about events of replicated policies: the check of the root-policy label
  at the beginning of the three predicates is left out, and so is, in `EncryptionKeys`, the check that the
  Secret is in a cluster namespace.
* In `TemplateResolvers` a template is resolved unless its resolver has stopped; an error of a running
  one is retried or written into the templates, as that of a stopped one is.
* In `PolicyAutomation` a change of the policy's status passes the predicate if the non-compliant
  clusters change; in the code any change of the compliance list does, which only adds reconciles.
* `PolicyAutomation` has one PolicyAutomation (the mapper takes the first that refers to the
  policy), no timestamps that fail to parse, and not mode scan: the code has a branch for it and
  the CRD does not admit it. Jobs in mode everyEvent of one version are one, as
  nothing asks for their number.
* In `PolicySet` placements are a set (the code builds the list in the random order of a
  map, which can only lead to needless patches), a failing Get of a policy from the cache
  is left out, as are errors other than "not found" for a binding or its decisions (which skip the binding as well), restricted bindings are left out, a binding that names policies
  directly names all of them, each binding has a Placement of its own, and what a
  cluster reports is free (a replica that does not exist reports nothing).
* `RootPolicy` leaves out the removal of root policies created in cluster namespaces.

## 6. Where the code and its comments disagree

Each has a run that finds the violation; `PROJECT.json` quotes the comment.

* `forgotten_entry`: `recordDeleted` trusts a read made at the start of the reconcile. An own
  Create can reach the cache in between, its event still to be handled, and the entry of an object
  that exists is dropped.
* `binding_update`: an update of a binding that only changes which exclusions apply does not queue
  the cluster's replica.
* `manual_rotation`: with the rotation disabled, a key replaced by hand is announced with a
  value made from `last-rotated`. If that is left as it was the root policies are
  patched with the value they have, and their replicas keep the old key.
* `early_start`: `delayAfterRunSeconds` is to be a minimum, but it is counted from a start that
  was cut to whole seconds, so a job can start up to a second early.

Met while modelling and covered by the named exceptions rather than by runs: the
marker of a Delete without a resourceVersion precondition does not recognise the
object under a version written by a status update in between; after a relist, a
deletion and a creation by others with equal generations look like a status
update; a restricted binding that overlaps only an earlier restricted one is reported
as a placement, so what is reported depends on the order of the list, against the comment on `GetClusterDecisions`
("placements which include at least one decision under non-restricted subset"); on a cluster without a
replica a restricted binding may be reported as remaining although it does not place the policy, against the
comment on `RemainingBinding`; `updateExistingReplicas` misses a replica the cache does not list yet; the
status controller can trim a cluster from the status before the spec controller
reads it; a policy given up before its replica was ever stored keeps its reference to
a resolver; with a ManagedCluster that goes away a marker stays until the next event;
a cluster chosen only by a restricted binding is in the decision set, and so in the
status, without ever getting a replica; a resolver that fails before the cache shows
the replica leaves the policy with a resolver that watches nothing.

In the encryption-keys controller: the reconcile that a rotation triggers may read the old
key from the cache and is not triggered again; a Secret without data makes the
assignment to `secret.Data["key"]` panic, and it is retried without end although the
comment on `Reconcile` says that invalid modifications are resolved.

In the policy automation: what happens while the rerun branch is taken is not looked at
in the mode's own branch; a recovery within the second of the job is not noticed; a delay
lowered to 0 while a violation waits leaves it waiting; each retry from a status the
cache does not have yet creates another job; a manual job counts as the job of its
generation in mode once.

In the PolicySet controller: a status compared with an old copy of itself stays wrong until the
next event; a policy that is created, disabled or deleted before its status names the
set queues nothing; a policy excluded on all its clusters counts as silent and hides the
compliance of the set.

## 7. Not modelled, and the plan

All controllers are modelled but the metrics one, which sets one gauge from the policy it
has just read and which nothing else reads. In order of importance, next:

1. An abstract specification of propagation (inputs, replicas, status; one step that brings
   a replica up to date) that `ReplicatedPolicy` and `RootPolicy` implement outside the gaps.
2. `canonicalizeDependencies` and `CalculateRootCompliance`, as pure functions, with theorems about them.

Left out for good: command line, TLS and wiring of the manager, wording of events and log
lines, generated deep-copy code, the name-length webhook (string formatting), and
the libraries the controllers are built on, which appear only as external actions.
