--------------------------- MODULE ReplicatedPolicy ---------------------------
(***************************************************************************)
(* The replicated-policy controller for ONE replicated policy (one key     *)
(* "<cluster namespace>/<rootNS>.<rootName>").                             *)
(*                                                                         *)
(* Five parties act on it:                                                 *)
(*   - the API server, whose versions of the object are the sequence hist: *)
(*     the resourceVersion of a version is its index, the live version is  *)
(*     the last one;                                                       *)
(*   - the informer, whose cache holds version `seen` and which hands the  *)
(*     events to the predicates AFTER the cache was updated;               *)
(*   - the predicates of replicatedPolicyPredicates, which read the        *)
(*     ResourceVersions map to skip the controller's own events;           *)
(*   - the reconciler, at most one at a time for a key, which reads the    *)
(*     cache, decides, and writes under the lock of the map's entry;       *)
(*   - everybody else: the root policy, bindings and placements that       *)
(*     decide what is wanted, the status sync and other writers of the     *)
(*     replicated policy, ManagedClusters coming and going, and crashes.   *)
(***************************************************************************)
EXTENDS Integers, Sequences

CONSTANTS
    Contents,     \* desired contents: spec, labels and annotations as one value
    Absent,       \* the content of a version that says "there is no object"
    Relist,       \* may the informer skip versions (a broken watch, then a list)?
    MaxChanges,   \* bound: changes of the inputs
    MaxClusters,  \* bound: ManagedCluster creations and deletions
    MaxWrites,    \* bound: writes of the replicated policy by somebody else
    MaxErrors,    \* bound: failing calls
    MaxCrashes    \* bound: restarts of the propagator

(* Why a policy is not wanted in the cluster namespace: "Disabled", its     *)
(* root policy is disabled or its name does not name one; "Unplaced", there *)
(* is no root policy or no placement decision for the cluster.              *)
NotWanted == {"Disabled", "Unplaced"}

ASSUME ContentsAssumption == Absent \notin Contents /\ Contents \cap NotWanted = {}
ASSUME RelistAssumption == Relist \in BOOLEAN
ASSUME BoundsAssumption ==
    /\ MaxChanges \in Nat /\ MaxClusters \in Nat /\ MaxWrites \in Nat
    /\ MaxErrors \in Nat /\ MaxCrashes \in Nat

VARIABLES
    hist,       \* the versions of the replicated policy at the API server
    seen,       \* the version in the informer's cache
    events,     \* events the informer has not handed to the predicates yet
    entry,      \* the key's value in the ResourceVersions map
    queue,      \* the key in the work queue: "none", "delayed" or "ready"
    want,       \* the cached inputs' verdict: a content or a reason in NotWanted
    notify,     \* a change of the inputs whose handlers have not run yet
    inCluster,  \* is there a ManagedCluster named like the namespace?
    refresh,    \* a ManagedCluster event the refresh controller has not handled
    pc,         \* where the reconciler is
    read,       \* its locals: the object as it read it from the cache,
    desired,    \* the content it wants to write,
    reply,      \* the outcome of its API call,
    written,    \* and the resourceVersion the call returned
    lost,       \* history: a change was skipped since the reconciler last looked
    budget      \* what is left of the bounds

mapVars    == <<entry>>
apiVars    == <<hist>>
cacheVars  == <<seen, events>>
inputVars  == <<want, notify, inCluster, refresh>>
workerVars == <<pc, read, desired, reply, written>>
vars == <<hist, seen, events, entry, queue, want, notify, inCluster, refresh,
          pc, read, desired, reply, written, lost, budget>>

-----------------------------------------------------------------------------
(* Versions, events, map entries.                                          *)

NoObject  == [content |-> Absent, gen |-> 0]
Version   == [content : Contents \cup {Absent}, gen : Nat]
Exists(v) == v.content # Absent

Live   == hist[Len(hist)]
Cached == hist[seen]

Event == [old : Nat, new : Nat]

(* The values of a lockingRsrcVersion: no entry in the sync.Map, the empty  *)
(* string, "<rv>" and "deleted-<rv>".                                       *)
Entry   == [kind : {"none", "empty", "rv", "deleted"}, rv : Nat]
NoEntry == [kind |-> "none", rv |-> 0]
Empty   == [kind |-> "empty", rv |-> 0]
Rv(n)      == [kind |-> "rv", rv |-> n]
Deleted(n) == [kind |-> "deleted", rv |-> n]

(* LoadOrStore in safeReadLoad and safeWriteLoad: loading a missing key     *)
(* stores the empty entry.                                                  *)
Loaded == IF entry = NoEntry THEN Empty ELSE entry

(* The write lock of the entry is held from safeWriteLoad to the return.    *)
Locked == pc \in {"deleting", "creating", "updating"}

NoRead == [exists |-> FALSE, stale |-> FALSE, rv |-> 0]

(* controller-runtime's priority queue keeps one item per key; the earlier  *)
(* time wins, so an immediate add absorbs a delayed one and vice versa.     *)
Add      == "ready"
AddAfter == IF queue = "ready" THEN "ready" ELSE "delayed"

(* The requeueTombstone of a reconcile that leaves a marker behind.         *)
Bug_NoRequeue == queue
RequeueTombstone == AddAfter

Spend(what) == /\ budget[what] > 0
               /\ budget' = [budget EXCEPT ![what] = @ - 1]

-----------------------------------------------------------------------------
(* The state of a propagator that has just started on a given history: the  *)
(* informers have listed, so the cache is fresh and one Create event is     *)
(* pending; the Create events of the bindings and decisions enqueue every   *)
(* placed policy.                                                           *)
Bug_FirstEvents(h) ==
    IF Exists(h[Len(h)]) THEN <<[old |-> 0, new |-> Len(h) + 1]>> ELSE <<>>

FirstEvents(h) ==
    IF Exists(h[Len(h)]) THEN <<[old |-> 0, new |-> Len(h)]>> ELSE <<>>

Init ==
    /\ \E c \in Contents : hist \in {<<NoObject>>, <<[content |-> c, gen |-> 1]>>}
    /\ seen = Len(hist)
    /\ events = FirstEvents(hist)
    /\ entry = NoEntry
    /\ queue = "none"
    /\ want \in Contents \cup NotWanted
    /\ notify = (want \in Contents)
    /\ inCluster \in BOOLEAN
    /\ refresh = inCluster
    /\ pc = "idle"
    /\ read = NoRead
    /\ desired = Absent
    /\ reply = "none"
    /\ written = 0
    /\ lost = FALSE
    /\ budget = [changes |-> MaxChanges, clusters |-> MaxClusters,
                 writes |-> MaxWrites, errors |-> MaxErrors, crashes |-> MaxCrashes]

-----------------------------------------------------------------------------
(* The environment.                                                        *)

(* The root policy, a binding, a placement or a decision changes.           *)
ChangeInputs ==
    /\ Spend("changes")
    /\ want' \in (Contents \cup NotWanted) \ {want}
    /\ notify' = TRUE
    /\ UNCHANGED <<apiVars, cacheVars, mapVars, workerVars,
                   queue, inCluster, refresh, lost>>

(* A ManagedCluster named like the namespace is created or deleted.         *)
ChangeManagedCluster ==
    /\ Spend("clusters")
    /\ inCluster' = ~inCluster
    /\ refresh' = TRUE
    /\ UNCHANGED <<apiVars, cacheVars, mapVars, workerVars,
                   queue, want, notify, lost>>

(* The API server's generation counts the changes of the spec since the     *)
(* object was created; a status update leaves it alone.                     *)
NextVersion(c) ==
    [content |-> c,
     gen |-> IF c = Live.content THEN Live.gen ELSE Live.gen + 1]

(* Somebody else writes the replicated policy: the status sync (the content *)
(* stays), an edit, a deletion or a creation.                               *)
ExternalWrite ==
    /\ Spend("writes")
    /\ \/ \E c \in Contents : hist' = Append(hist, NextVersion(c))
       \/ Exists(Live) /\ hist' = Append(hist, NoObject)
    /\ UNCHANGED <<cacheVars, mapVars, inputVars, workerVars, queue, lost>>

(* The propagator dies and starts again: everything but the API server's    *)
(* objects is lost.                                                         *)
Crash ==
    /\ Spend("crashes")
    /\ seen' = Len(hist)
    /\ events' = FirstEvents(hist)
    /\ entry' = NoEntry
    /\ queue' = "none"
    /\ notify' = (want \in Contents)
    /\ refresh' = inCluster
    /\ pc' = "idle"
    /\ read' = NoRead
    /\ desired' = Absent
    /\ reply' = "none"
    /\ written' = 0
    /\ lost' = FALSE
    /\ UNCHANGED <<apiVars, want, inCluster>>

Environment == ChangeInputs \/ ChangeManagedCluster \/ ExternalWrite \/ Crash

-----------------------------------------------------------------------------
(* The informer and the predicates.                                        *)

(* The cache moves on, then the event is handed over.  After a relist the   *)
(* informer compares what it had with what it got: a deletion followed by a *)
(* creation looks like an update.                                           *)
InformerSync ==
    /\ \E n \in (seen + 1) .. Len(hist) :
         /\ n = seen + 1 \/ Relist
         /\ seen' = n
         /\ events' = IF Exists(Cached) \/ Exists(hist[n])
                      THEN Append(events, [old |-> seen, new |-> n])
                      ELSE events
         /\ lost' = (lost \/ n # seen + 1)
    /\ UNCHANGED <<apiVars, mapVars, inputVars, workerVars, queue, budget>>

Before(e) == IF e.old = 0 THEN NoObject ELSE hist[e.old]
After(e)  == hist[e.new]

(* An event's predicate: the read lock of the entry is needed, a missing    *)
(* entry is stored empty, and the key is queued when the event passes.      *)
Handle(e, passes) ==
    /\ ~Locked
    /\ events' = Tail(events)
    /\ entry' = Loaded
    /\ queue' = IF passes THEN Add ELSE queue
    /\ lost' = (lost \/ /\ ~passes
                        /\ pc # "idle"
                        /\ Before(e).content # After(e).content)
    /\ UNCHANGED <<apiVars, seen, inputVars, workerVars, budget>>

CreatePasses(e) == entry = NoEntry \/ entry # Rv(e.new)
Bug_DeletePasses(e) == entry = NoEntry
DeletePasses(e) == entry = NoEntry \/ entry.kind # "deleted"
UpdatePasses(e) == /\ entry = NoEntry \/ entry # Rv(e.new)
                   /\ Before(e).gen # After(e).gen

CreateFunc ==
    /\ events # <<>>
    /\ LET e == Head(events) IN
         /\ ~Exists(Before(e)) /\ Exists(After(e))
         /\ Handle(e, CreatePasses(e))

DeleteFunc ==
    /\ events # <<>>
    /\ LET e == Head(events) IN
         /\ Exists(Before(e)) /\ ~Exists(After(e))
         /\ Handle(e, DeletePasses(e))

UpdateFunc ==
    /\ events # <<>>
    /\ LET e == Head(events) IN
         /\ Exists(Before(e)) /\ Exists(After(e))
         /\ Handle(e, UpdatePasses(e))

(* The handlers of PlacementBindings, PlacementDecisions and PlacementRules,*)
(* and the root-policy reconciler through its channel, queue the key.       *)
HandleInputs ==
    /\ notify
    /\ notify' = FALSE
    /\ queue' = Add
    /\ UNCHANGED <<apiVars, cacheVars, mapVars, workerVars,
                   want, inCluster, refresh, lost, budget>>

(* ManagedClusterPolicyReconciler lists the replicated policies of the      *)
(* namespace from the cache and queues each.                                *)
RefreshManagedCluster ==
    /\ refresh
    /\ refresh' = FALSE
    /\ queue' = IF Exists(Cached) THEN Add ELSE queue
    /\ UNCHANGED <<apiVars, cacheVars, mapVars, workerVars,
                   want, notify, inCluster, lost, budget>>

(* The time of a delayed item has come.                                     *)
TimerFires ==
    /\ queue = "delayed"
    /\ queue' = "ready"
    /\ UNCHANGED <<apiVars, cacheVars, mapVars, inputVars, workerVars, lost, budget>>

Watching ==
    \/ InformerSync \/ CreateFunc \/ DeleteFunc \/ UpdateFunc
    \/ HandleInputs \/ RefreshManagedCluster \/ TimerFires

-----------------------------------------------------------------------------
(* The reconciler.                                                         *)

(* The reconcile returns; the locals are gone.                              *)
Finish(q) ==
    /\ pc' = "idle"
    /\ queue' = q
    /\ read' = NoRead
    /\ desired' = Absent
    /\ reply' = "none"
    /\ written' = 0

(* A worker takes the key, reads the replicated policy from the cache, and  *)
(* asks cachedReplicatedPolicyIsStale about it.                             *)
Bug_IsStale == Exists(Cached) /\ entry.kind = "deleted"
CachedReplicatedPolicyIsStale == Exists(Cached) /\ entry = Deleted(seen)

GetReplicated ==
    /\ pc = "idle" /\ queue = "ready"
    /\ queue' = "none"
    /\ LET stale  == CachedReplicatedPolicyIsStale
           exists == Exists(Cached) /\ ~stale
       IN read' = [exists |-> exists, stale |-> stale,
                   rv |-> IF exists THEN seen ELSE 0]
    /\ entry' = IF Exists(Cached) THEN Loaded ELSE entry
    /\ lost' = FALSE
    /\ pc' = "decide"
    /\ UNCHANGED <<apiVars, cacheVars, inputVars,
                   desired, reply, written, budget>>

(* Any of the calls before the write fails: the error is returned and the   *)
(* key is queued again with backoff.                                        *)
ReconcileError ==
    /\ pc \in {"decide", "cleanup", "write"}
    /\ Spend("errors")
    /\ Finish(AddAfter)
    /\ UNCHANGED <<apiVars, cacheVars, mapVars, inputVars, lost>>

(* The policy is not wanted and is not there: recordDeleted.                *)
Bug_KeepEntry == entry
ClearedEntry == IF read.stale THEN entry ELSE NoEntry

RecordDeleted ==
    /\ pc = "decide"
    /\ want \in NotWanted /\ ~read.exists
    /\ entry' = ClearedEntry
    /\ Finish(IF read.stale THEN RequeueTombstone ELSE queue)
    /\ UNCHANGED <<apiVars, cacheVars, inputVars, lost, budget>>

(* A replicated policy in a namespace that is not a managed cluster's is    *)
(* somebody else's, unless the root policy is here and disabled.            *)
NotOurs == want # "Disabled" /\ ~inCluster

SkipForeign ==
    /\ pc = "decide"
    /\ want \in NotWanted /\ read.exists /\ NotOurs
    /\ Finish(queue)
    /\ UNCHANGED <<apiVars, cacheVars, mapVars, inputVars, lost, budget>>

StartCleanUp ==
    /\ pc = "decide"
    /\ want \in NotWanted /\ read.exists /\ ~NotOurs
    /\ pc' = "cleanup"
    /\ UNCHANGED <<apiVars, cacheVars, mapVars, inputVars,
                   queue, read, desired, reply, written, lost, budget>>

(* cleanUpReplicated takes the lock and deletes by name, whatever version   *)
(* is live.  An error may hide a deletion that took place.                  *)
DeleteReplicated ==
    /\ pc = "cleanup"
    /\ pc' = "deleting"
    /\ entry' = Loaded
    /\ \/ /\ reply' = IF Exists(Live) THEN "ok" ELSE "notfound"
          /\ hist' = IF Exists(Live) THEN Append(hist, NoObject) ELSE hist
          /\ UNCHANGED budget
       \/ /\ reply' = "error"
          /\ Spend("errors")
          /\ \/ hist' = hist
             \/ Exists(Live) /\ hist' = Append(hist, NoObject)
    /\ UNCHANGED <<cacheVars, inputVars, queue, read, desired, written, lost>>

(* The marker is recorded and the lock released.  With or without an error  *)
(* of the watches, the key comes back later.                                *)
Bug_AlwaysMarked == Deleted(read.rv)
DeletedMarker == IF reply \in {"ok", "notfound"} THEN Deleted(read.rv) ELSE entry

RecordDeletion ==
    /\ pc = "deleting"
    /\ entry' = DeletedMarker
    /\ Finish(RequeueTombstone)
    /\ UNCHANGED <<apiVars, cacheVars, inputVars, lost, budget>>

(* The policy is wanted: buildReplicatedPolicy and processTemplates.        *)
BuildReplicated ==
    /\ pc = "decide"
    /\ want \in Contents /\ inCluster
    /\ desired' = want
    /\ pc' = "write"
    /\ UNCHANGED <<apiVars, cacheVars, mapVars, inputVars,
                   queue, read, reply, written, lost, budget>>

(* Without the ManagedCluster, building fails and is retried.               *)
BuildFails ==
    /\ pc = "decide"
    /\ want \in Contents /\ ~inCluster
    /\ Finish(AddAfter)
    /\ UNCHANGED <<apiVars, cacheVars, mapVars, inputVars, lost, budget>>

Appended(v) == /\ hist' = Append(hist, v)
               /\ written' = Len(hist) + 1

NotApplied == UNCHANGED <<hist, written>>

CreateReplicated ==
    /\ pc = "write" /\ ~read.exists
    /\ pc' = "creating"
    /\ entry' = Loaded
    /\ LET new == [content |-> desired, gen |-> 1] IN
         \/ ~Exists(Live) /\ reply' = "ok" /\ Appended(new) /\ UNCHANGED budget
         \/ Exists(Live) /\ reply' = "exists" /\ NotApplied /\ UNCHANGED budget
         \/ /\ reply' = "error"
            /\ Spend("errors")
            /\ NotApplied \/ (~Exists(Live) /\ Appended(new))
    /\ UNCHANGED <<cacheVars, inputVars, queue, read, desired, lost>>

(* The resourceVersion is recorded, or the entry is emptied if the policy   *)
(* was there already.  A failed watch makes a successful call an error.     *)
CreateReturned ==
    /\ pc = "creating"
    /\ entry' = IF reply = "ok" THEN Rv(written)
                ELSE IF reply = "exists" THEN Empty ELSE entry
    /\ \/ Finish(IF reply = "ok" THEN queue ELSE AddAfter) /\ UNCHANGED budget
       \/ reply = "ok" /\ Spend("errors") /\ Finish(AddAfter)
    /\ UNCHANGED <<apiVars, cacheVars, inputVars, lost>>

(* The update carries the resourceVersion read from the cache: it fails if  *)
(* that is no longer the live version.  No call if nothing changes.         *)
UpdateReplicated ==
    /\ pc = "write" /\ read.exists
    /\ pc' = "updating"
    /\ entry' = Loaded
    /\ LET same    == hist[read.rv].content = desired
           current == read.rv = Len(hist)
       IN \/ /\ same
             /\ reply' = "ok" /\ written' = read.rv
             /\ UNCHANGED <<hist, budget>>
          \/ /\ ~same /\ current
             /\ reply' = "ok" /\ Appended(NextVersion(desired))
             /\ UNCHANGED budget
          \/ /\ ~same /\ ~current
             /\ reply' = "error" /\ NotApplied
             /\ UNCHANGED budget
          \/ /\ ~same
             /\ reply' = "error" /\ Spend("errors")
             /\ NotApplied \/ (current /\ Appended(NextVersion(desired)))
    /\ UNCHANGED <<cacheVars, inputVars, queue, read, desired, lost>>

UpdateReturned ==
    /\ pc = "updating"
    /\ entry' = IF reply = "ok" THEN Rv(written) ELSE entry
    /\ \/ Finish(IF reply = "ok" THEN queue ELSE AddAfter) /\ UNCHANGED budget
       \/ reply = "ok" /\ Spend("errors") /\ Finish(AddAfter)
    /\ UNCHANGED <<apiVars, cacheVars, inputVars, lost>>

Reconcile ==
    \/ GetReplicated \/ ReconcileError
    \/ RecordDeleted \/ SkipForeign
    \/ StartCleanUp \/ DeleteReplicated \/ RecordDeletion
    \/ BuildReplicated \/ BuildFails
    \/ CreateReplicated \/ CreateReturned
    \/ UpdateReplicated \/ UpdateReturned

-----------------------------------------------------------------------------
(* Nothing is under way for the key.                                        *)
Quiescent ==
    /\ pc = "idle" /\ queue = "none"
    /\ events = <<>> /\ seen = Len(hist)
    /\ ~notify /\ ~refresh

(* Resting is not a deadlock; being stuck with work to do would be one.     *)
AtRest == Quiescent /\ UNCHANGED vars

Next == Environment \/ Watching \/ Reconcile \/ AtRest

(* The informer, the predicates, the handlers, the queue's timers and the   *)
(* workers are goroutines of their own and keep running; the RWMutex lets a *)
(* waiting reader in before the next writer, so the predicates are not      *)
(* starved by the lock.  Nothing obliges the environment to act.            *)
Fairness ==
    /\ WF_vars(InformerSync)
    /\ SF_vars(CreateFunc \/ DeleteFunc \/ UpdateFunc)
    /\ WF_vars(HandleInputs)
    /\ WF_vars(RefreshManagedCluster)
    /\ WF_vars(TimerFires)
    /\ WF_vars(Reconcile)

Spec == Init /\ [][Next]_vars /\ Fairness

-----------------------------------------------------------------------------
(* Properties.                                                             *)

(* Every variable has its type; the cache and the pending events refer to   *)
(* versions the API server has produced.                                    *)
TypeOK ==
    /\ hist \in Seq(Version) /\ hist # <<>>
    /\ seen \in 1 .. Len(hist)
    /\ events \in Seq([old : 0 .. Len(hist), new : 1 .. Len(hist)])
    /\ entry \in Entry
    /\ queue \in {"none", "delayed", "ready"}
    /\ want \in Contents \cup NotWanted
    /\ notify \in BOOLEAN /\ inCluster \in BOOLEAN /\ refresh \in BOOLEAN
    /\ pc \in {"idle", "decide", "cleanup", "deleting", "write",
               "creating", "updating"}
    /\ read \in [exists : BOOLEAN, stale : BOOLEAN, rv : 0 .. Len(hist)]
    /\ desired \in Contents \cup {Absent}
    /\ reply \in {"none", "ok", "notfound", "exists", "error"}
    /\ written \in 0 .. Len(hist)
    /\ lost \in BOOLEAN
    /\ budget \in [{"changes", "clusters", "writes", "errors", "crashes"} -> Nat]

(* cleanUpReplicated, cachedReplicatedPolicyIsStale: a cache hit on the      *)
(* version named by a "deleted-<rv>" marker may be treated as missing only   *)
(* because that object is gone; the marker is recorded after the Delete, and *)
(* whatever exists now is a later incarnation.                               *)
GoneSince(n) == \E m \in (n + 1) .. Len(hist) : ~Exists(hist[m])
MarkerSound == entry.kind = "deleted" => GoneSince(entry.rv)

(* What the cluster namespace should hold.                                  *)
Converged ==
    /\ want \in Contents => Live.content = want
    /\ want \in NotWanted /\ ~NotOurs => ~Exists(Live)

(* Reconcile, replicatedPolicyPredicates: when everything has come to rest,  *)
(* the namespace holds what the inputs ask for, whatever the order of        *)
(* events, retries, foreign writes and restarts; the only way to miss a      *)
(* change is a predicate that skips it while a reconcile that has not seen   *)
(* it is still running.                                                      *)
ConvergedUnlessLost == Quiescent /\ ~lost => Converged

(* recordDeleted: at rest, the ResourceVersions map has no entry for a       *)
(* replicated policy that does not exist.                                    *)
MapBounded ==
    Quiescent /\ ~lost /\ inCluster /\ ~Exists(Live) => entry = NoEntry

(* cleanUpReplicated, recordDeleted: a "deleted" marker makes the predicates *)
(* skip Delete events, so as long as there is one the key must come back.    *)
TombstoneRevisited ==
    entry.kind = "deleted" /\ inCluster => pc # "idle" \/ queue # "none"

(* Once the ManagedCluster stays, the controller comes to rest: no retry,    *)
(* requeue or own event goes on forever.                                     *)
ComesToRest == <>[]inCluster => <>[]Quiescent

(* recordDeleted: "The cache is fresh and confirms the replicated policy is  *)
(* gone": when the entry is dropped, the cache does not hold the policy.     *)
GoneWhenForgotten ==
    [][RecordDeleted /\ ~read.stale => ~Exists(Cached)]_vars

=============================================================================
