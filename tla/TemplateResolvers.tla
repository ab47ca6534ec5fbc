-------------------------- MODULE TemplateResolvers --------------------------
(***************************************************************************)
(* The template resolvers of the replicated-policy controller: one for     *)
(* each service account that root policies name in hubTemplateOptions,     *)
(* shared by reference count, stopped by an asynchronous clean-up when the *)
(* last replicated policy leaves, and restarted after its watcher or its   *)
(* token refresh has failed in the background.                             *)
(*                                                                         *)
(* Replicated policies are reconciled concurrently, each by one worker at  *)
(* a time.  What runs under the write lock of globalLock is one step that  *)
(* waits for the readers; what runs under the read lock is split where     *)
(* another goroutine can come between.  ResourceVersions and the writers   *)
(* of the replicated policies are ReplicatedPolicy's subject: here a       *)
(* reconcile knows of its own deletion, and its own events are skipped.    *)
(***************************************************************************)
EXTENDS Integers, FiniteSets

CONSTANTS
    Policies,      \* the replicated policies
    Accounts,      \* service accounts other than the controller's own
    MaxResolvers,  \* bound: resolvers ever started
    MaxChanges,    \* bound: changes of root policies and service accounts
    MaxErrors      \* bound: failing calls and background errors

None == "none"
Default == "default"

ASSUME AccountsAssumption ==
    /\ IsFiniteSet(Policies)
    /\ Accounts \cap {None, Default} = {}
ASSUME ResolverBoundsAssumption ==
    MaxResolvers \in Nat /\ MaxChanges \in Nat /\ MaxErrors \in Nat

VARIABLES
    wants,     \* the account the root policy names for each replica, None if unwanted
    present,   \* the service accounts that exist
    replica,   \* the account named by the stored replicated policy, None if there is none
    cache,     \* the same in the manager's cache
    forgotten, \* policies without an entry in ResourceVersions
    queue,     \* replicated policies to reconcile
    watching,  \* the missing account each policy has a watch on, or None
    pc,        \* per policy: the next step of its reconcile
    sa, seen,  \* the account of the desired replica, and of the one it read
    held,      \* per policy: the resolver its reconcile has in hand, 0 if none
    account,   \* policyToServiceAccount
    served,    \* per policy: the resolver that watches what its templates refer to
    current,   \* TemplateResolvers: account -> resolver, 0 if none
    owner,     \* the account each resolver was started for
    ref, count,\* the counter each resolver points to, and the counters
    made,      \* resolvers started so far
    canceled, stopped, nilled,  \* canceled set, context cancelled, resolver = nil
    expired,   \* resolvers whose token could not be refreshed
    readers,   \* who holds globalLock.RLock
    cleanups,  \* clean-up goroutines that wait for the lock, per resolver
    failing, listing,  \* goroutines in onBackgroundError, before and after the lock
    sending,   \* events in replicatedPolicyUpdates
    missed,    \* history: users of a failed resolver the cache did not list
    changes, errors

rootVars == <<wants, present, changes>>
apiVars  == <<replica, cache, forgotten>>
locals   == <<sa, seen>>
mapVars  == <<account, current, owner, ref, count, made>>
flagVars == <<canceled, stopped, nilled, expired>>
goVars   == <<cleanups, failing, listing, sending>>
vars == <<rootVars, apiVars, queue, watching, pc, locals, held, served,
          mapVars, flagVars, readers, goVars, missed, errors>>

Names == Accounts \cup {Default, None}
Ids   == 1..MaxResolvers
Started == 1..made

(* The default resolver never stops.  0 also stands for it in held; the     *)
(* account tells the two apart.                                             *)
ResolversInit ==
    /\ wants = [p \in Policies |-> None]
    /\ present \in SUBSET Accounts
    /\ replica = wants /\ cache = wants /\ account = wants /\ sa = wants
    /\ seen = wants /\ watching = wants
    /\ forgotten = Policies
    /\ queue = {} /\ readers = {} /\ sending = {} /\ missed = {}
    /\ pc = [p \in Policies |-> "idle"]
    /\ held = [p \in Policies |-> 0] /\ served = held
    /\ current = [a \in Accounts |-> 0]
    /\ owner = [r \in Ids |-> None]
    /\ ref = [r \in Ids |-> r]
    /\ count = [r \in Ids |-> 0] /\ cleanups = count
    /\ made = 0
    /\ canceled = {} /\ stopped = {} /\ nilled = {} /\ expired = {}
    /\ failing = {} /\ listing = {}
    /\ changes = MaxChanges /\ errors = MaxErrors

-----------------------------------------------------------------------------
(* The rest of the hub.                                                     *)

(* A root policy changes its service account, comes or goes; the spec        *)
(* controller or a handler queues the replicated policy.                     *)
ChangeRoot(p) ==
    /\ changes > 0 /\ changes' = changes - 1
    /\ \E a \in Names \ {wants[p]} : wants' = [wants EXCEPT ![p] = a]
    /\ queue' = queue \cup {p}
    /\ UNCHANGED <<present, apiVars, watching, pc, locals, held, served, mapVars,
                   flagVars, readers, goVars, missed, errors>>

(* A service account is created or deleted; watches on it fire.              *)
ChangeAccount(a) ==
    /\ changes > 0 /\ changes' = changes - 1
    /\ present' = IF a \in present THEN present \ {a} ELSE present \cup {a}
    /\ queue' = queue \cup {p \in Policies : watching[p] = a}
    /\ UNCHANGED <<wants, apiVars, watching, pc, locals, held, served, mapVars,
                   flagVars, readers, goVars, missed, errors>>

(* The manager's cache catches up.  The event is the controller's own and is  *)
(* skipped, unless recordDeleted has dropped the entry meanwhile.             *)
CacheSync(p) ==
    /\ cache[p] # replica[p]
    /\ cache' = [cache EXCEPT ![p] = replica[p]]
    /\ queue' = IF p \in forgotten THEN queue \cup {p} ELSE queue
    /\ UNCHANGED <<rootVars, replica, forgotten, watching, pc, locals, held, served,
                   mapVars, flagVars, readers, goVars, missed, errors>>

-----------------------------------------------------------------------------
(* Reconcile up to the resolver.                                            *)

Fails == errors > 0 /\ errors' = errors - 1

(* replicatedExists: what the cache shows, unless this controller deleted it. *)
GetReplicated(p) == IF replica[p] = None THEN None ELSE cache[p]

(* An unwanted policy that is not there is only recorded as deleted: its     *)
(* resolver reference, if it has one, stays.                                 *)
Reconcile(p) ==
    /\ pc[p] = "idle" /\ p \in queue
    /\ queue' = queue \ {p}
    /\ sa' = [sa EXCEPT ![p] = wants[p]]
    /\ seen' = [seen EXCEPT ![p] = GetReplicated(p)]
    /\ pc' = [pc EXCEPT ![p] = IF wants[p] # None THEN "get"
                               ELSE IF seen'[p] # None THEN "remove" ELSE "idle"]
    /\ forgotten' = IF pc'[p] = "idle" THEN forgotten \cup {p} ELSE forgotten
    /\ UNCHANGED <<rootVars, replica, cache, watching, held, served, mapVars, flagVars,
                   readers, goVars, missed, errors>>

(* RemoveReplicatedPolicy, the first call of cleanUpReplicated and of a       *)
(* GetResolver for a new account.                                            *)
NeedsRemoval(p) ==
    \/ pc[p] = "remove"
    \/ pc[p] = "get" /\ account[p] \notin {None, sa[p]}

AfterRemoval(p) == IF sa[p] = None THEN "delete" ELSE "get"

Decremented(p) ==
    LET c == ref[current[account[p]]] IN [count EXCEPT ![c] = @ - 1]

NoResolverToLeave(p) ==
    \/ account[p] \in {None, Default}
    \/ current[account[p]] = 0
    \/ current[account[p]] \in canceled

RemoveReplicatedPolicy(p) ==
    /\ NeedsRemoval(p)
    /\ count' = IF account[p] \in {None, Default} \/ current[account[p]] = 0
                THEN count ELSE Decremented(p)
    /\ IF NoResolverToLeave(p)
       THEN /\ account' = [account EXCEPT ![p] = None]
            /\ pc' = [pc EXCEPT ![p] = AfterRemoval(p)]
            /\ UNCHANGED <<held, readers>>
       ELSE /\ held' = [held EXCEPT ![p] = current[account[p]]]
            /\ readers' = readers \cup {p}
            /\ pc' = [pc EXCEPT ![p] = "check"]
            /\ UNCHANGED account
    /\ UNCHANGED <<rootVars, apiVars, queue, watching, locals, served, current, owner,
                   ref, made, flagVars, goVars, missed, errors>>

Bug_KeepRLock(p) == readers

RUnlock(p) == readers \ {p}

(* Still under the read lock: the watches are dropped, and whoever sees the   *)
(* counter at 0 starts a clean-up.                                           *)
LeaveResolver(p) ==
    LET r == held[p] IN
    /\ pc[p] = "check"
    /\ cleanups' = IF count[ref[r]] = 0 THEN [cleanups EXCEPT ![r] = @ + 1] ELSE cleanups
    /\ readers' = RUnlock(p)
    /\ account' = [account EXCEPT ![p] = None]
    /\ held' = [held EXCEPT ![p] = 0]
    /\ pc' = [pc EXCEPT ![p] = AfterRemoval(p)]
    /\ UNCHANGED <<rootVars, apiVars, queue, watching, locals, served, current, owner,
                   ref, count, made, flagVars, failing, listing, sending, missed, errors>>

(* What the clean-up goroutine checks again once it has the write lock.       *)
Bug_LastReference(r) == count[ref[r]] = 1

StillUnused(r) == count[ref[r]] = 0

(* The clean-up goroutine.                                                   *)
CleanUp(r) ==
    /\ cleanups[r] > 0 /\ readers = {}
    /\ cleanups' = [cleanups EXCEPT ![r] = @ - 1]
    /\ IF StillUnused(r) /\ r \notin canceled
       THEN /\ canceled' = canceled \cup {r}
            /\ stopped' = stopped \cup {r}
            /\ current' = [current EXCEPT ![owner[r]] = 0]
       ELSE UNCHANGED <<canceled, stopped, current>>
    /\ UNCHANGED <<rootVars, apiVars, queue, watching, pc, locals, held, served, account,
                   owner, ref, count, made, nilled, expired, readers, failing, listing,
                   sending, missed, errors>>

-----------------------------------------------------------------------------
(* GetResolver, once no other account is in the way.                        *)

Bug_AnyResolver(a) == current[a] # 0

Usable(a) == current[a] # 0 /\ current[a] \notin canceled

Ready(p) == pc[p] = "get" /\ ~NeedsRemoval(p)

GetDefault(p) ==
    /\ Ready(p) /\ sa[p] = Default
    /\ account' = [account EXCEPT ![p] = Default]
    /\ held' = [held EXCEPT ![p] = 0]
    /\ missed' = missed \ {p}
    /\ pc' = [pc EXCEPT ![p] = "resolve"]
    /\ UNCHANGED <<rootVars, apiVars, queue, watching, locals, served, current, owner,
                   ref, count, made, flagVars, readers, goVars, errors>>

(* Under the read lock: a usable resolver keeps the lock, otherwise the      *)
(* lock is given up for the write lock.                                      *)
LookUp(p) ==
    /\ Ready(p) /\ sa[p] # Default
    /\ IF Usable(sa[p])
       THEN /\ held' = [held EXCEPT ![p] = current[sa[p]]]
            /\ readers' = readers \cup {p}
            /\ pc' = [pc EXCEPT ![p] = "add"]
       ELSE /\ pc' = [pc EXCEPT ![p] = "upgrade"]
            /\ UNCHANGED <<held, readers>>
    /\ UNCHANGED <<rootVars, apiVars, queue, watching, locals, served, mapVars, flagVars,
                   goVars, missed, errors>>

(* addReference: only for a policy that was not with this account already.   *)
Bug_Unreferenced(p, cnt, c) == cnt

Referenced(p, cnt, c) ==
    IF account[p] = sa[p] THEN cnt ELSE [cnt EXCEPT ![c] = @ + 1]

AddReference(p) ==
    /\ pc[p] = "add"
    /\ count' = Referenced(p, count, ref[held[p]])
    /\ account' = [account EXCEPT ![p] = sa[p]]
    /\ readers' = RUnlock(p)
    /\ missed' = missed \ {p}
    /\ pc' = [pc EXCEPT ![p] = "resolve"]
    /\ UNCHANGED <<rootVars, apiVars, queue, watching, locals, held, served, current,
                   owner, ref, made, flagVars, goVars, errors>>

(* The counter of a new resolver: that of the cancelled one it replaces.     *)
Bug_OwnRef(a, new) == new

CopiedRef(a, new) == IF current[a] # 0 THEN ref[current[a]] ELSE new

(* With the write lock: another policy may have won the race.                *)
Upgrade(p) ==
    LET a   == sa[p]
        new == made + 1
        c   == CopiedRef(a, new) IN
    /\ pc[p] = "upgrade" /\ readers = {}
    /\ IF Usable(a)
       THEN /\ count' = Referenced(p, count, ref[current[a]])
            /\ held' = [held EXCEPT ![p] = current[a]]
            /\ UNCHANGED <<current, owner, ref, made>>
       ELSE /\ a \in present /\ made < MaxResolvers   \* initResolver succeeds
            /\ made' = new
            /\ owner' = [owner EXCEPT ![new] = a]
            /\ ref' = [ref EXCEPT ![new] = c]
            /\ current' = [current EXCEPT ![a] = new]
            /\ count' = Referenced(p, count, c)
            /\ held' = [held EXCEPT ![p] = new]
    /\ account' = [account EXCEPT ![p] = a]
    /\ missed' = missed \ {p}
    /\ pc' = [pc EXCEPT ![p] = "resolve"]
    /\ UNCHANGED <<rootVars, apiVars, queue, watching, locals, served, flagVars, readers,
                   goVars, errors>>

(* initResolver fails: no token for a missing account, or another error.     *)
(* The policy is written with the error in its templates.                    *)
InitFails(p) ==
    /\ pc[p] = "upgrade" /\ readers = {} /\ ~Usable(sa[p])
    /\ \/ /\ sa[p] \notin present
          /\ pc' = [pc EXCEPT ![p] = "missing"]
          /\ UNCHANGED errors
       \/ /\ Fails
          /\ pc' = [pc EXCEPT ![p] = "failed"]
    /\ held' = [held EXCEPT ![p] = 0]
    /\ UNCHANGED <<rootVars, apiVars, queue, watching, locals, served, mapVars, flagVars,
                   readers, goVars, missed>>

-----------------------------------------------------------------------------
(* The rest of the reconcile.                                               *)

(* StartQueryBatch and ResolveTemplate register the watches with the resolver *)
(* in hand, stopped or not; a stopped one may also give an error, which is   *)
(* retried or written into the templates.                                    *)
Resolve(p) ==
    /\ pc[p] = "resolve"
    /\ \/ /\ served' = [served EXCEPT ![p] = held[p]]
          /\ pc' = [pc EXCEPT ![p] = "write"]
          /\ UNCHANGED queue
       \/ /\ held[p] \in stopped
          /\ queue' = queue \cup {p}
          /\ pc' = [pc EXCEPT ![p] = "idle"]
          /\ UNCHANGED served
       \/ /\ held[p] \in stopped
          /\ pc' = [pc EXCEPT ![p] = "failed"]
          /\ UNCHANGED <<queue, served>>
    /\ held' = [held EXCEPT ![p] = 0]
    /\ UNCHANGED <<rootVars, apiVars, watching, locals, mapVars, flagVars, readers,
                   goVars, missed, errors>>

(* The watch on a missing account, then Create or Update.  A watch on an      *)
(* account that exists by now fires at once.  A write based on an old cache  *)
(* is refused; an old cache that already has what is desired is not written, *)
(* and the version recorded then lets the pending event pass (forgotten).    *)
(* Errors are retried, and so is a forbidden account once the object exists. *)
WriteReplicated(p) ==
    /\ pc[p] \in {"write", "missing", "failed"}
    /\ watching' = [watching EXCEPT ![p] = IF pc[p] = "missing" THEN sa[p] ELSE None]
    /\ served' = IF pc[p] = "write" THEN served ELSE [served EXCEPT ![p] = 0]
    /\ pc' = [pc EXCEPT ![p] = "idle"]
    /\ \E fails \in BOOLEAN, retry \in BOOLEAN :
          LET fresh == seen[p] = replica[p]
              ok    == ~fails /\ fresh
              same  == ~fails /\ ~fresh /\ seen[p] = sa[p]
          IN /\ IF fails THEN Fails ELSE UNCHANGED errors
             /\ retry => pc[p] = "failed" /\ seen[p] # None
             /\ replica' = IF ok THEN [replica EXCEPT ![p] = sa[p]] ELSE replica
             /\ forgotten' = IF ok THEN forgotten \ {p}
                             ELSE IF same THEN forgotten \cup {p} ELSE forgotten
             /\ queue' = IF ~(ok \/ same) \/ retry
                            \/ (pc[p] = "missing" /\ sa[p] \in present)
                         THEN queue \cup {p} ELSE queue
    /\ UNCHANGED <<rootVars, cache, locals, held, mapVars, flagVars, readers, goVars,
                   missed>>

(* The Delete of cleanUpReplicated, after its watches are gone.               *)
DeleteReplicated(p) ==
    /\ pc[p] = "delete"
    /\ watching' = [watching EXCEPT ![p] = None]
    /\ served' = [served EXCEPT ![p] = 0]
    /\ pc' = [pc EXCEPT ![p] = "idle"]
    /\ \/ /\ replica' = [replica EXCEPT ![p] = None]
          /\ forgotten' = forgotten \ {p}
          /\ UNCHANGED <<queue, errors>>
       \/ /\ Fails
          /\ queue' = queue \cup {p}
          /\ UNCHANGED <<replica, forgotten>>
    /\ UNCHANGED <<rootVars, cache, locals, held, mapVars, flagVars, readers, goVars,
                   missed>>

-----------------------------------------------------------------------------
(* Background errors.                                                       *)

(* The DynamicWatcher ends with an error, or a token cannot be refreshed.     *)
WatcherStops(r) ==
    /\ r \in Started \ (canceled \cup stopped) /\ Fails
    /\ canceled' = canceled \cup {r}
    /\ failing' = failing \cup {<<r, "watcher">>}
    /\ UNCHANGED <<rootVars, apiVars, queue, watching, pc, locals, held, served, mapVars,
                   stopped, nilled, expired, readers, cleanups, listing, sending, missed>>

TokenRefreshFails(r) ==
    /\ r \in Started \ (stopped \cup expired) /\ Fails
    /\ expired' = expired \cup {r}
    /\ failing' = failing \cup {<<r, "token">>}
    /\ UNCHANGED <<rootVars, apiVars, queue, watching, pc, locals, held, served, mapVars,
                   canceled, stopped, nilled, readers, cleanups, listing, sending, missed>>

(* onBackgroundError takes the write lock.                                   *)
Bug_Unlocked == TRUE

LockedByWriter == readers = {}

(* Whatever resolver the account has by now is cancelled.                    *)
OnBackgroundError(x) ==
    LET hit == {current[owner[x[1]]]} \ {0} IN
    /\ x \in failing /\ LockedByWriter
    /\ canceled' = canceled \cup hit
    /\ stopped' = stopped \cup hit
    /\ nilled' = nilled \cup hit
    /\ failing' = failing \ {x} /\ listing' = listing \cup {x}
    /\ UNCHANGED <<rootVars, apiVars, queue, watching, pc, locals, held, served, mapVars,
                   expired, readers, cleanups, sending, missed, errors>>

(* The cached replicated policies that name the account are sent an event.    *)
Listed(a) == {p \in Policies : cache[p] = a}

ListPolicies(x) ==
    LET a == owner[x[1]] IN
    /\ x \in listing
    /\ listing' = listing \ {x}
    /\ sending' = sending \cup Listed(a)
    /\ missed' = missed \cup {p \in Policies \ Listed(a) : account[p] = a}
    /\ stopped' = IF x[2] = "watcher" THEN stopped \cup {x[1]} ELSE stopped
    /\ UNCHANGED <<rootVars, apiVars, queue, watching, pc, locals, held, served, mapVars,
                   canceled, nilled, expired, readers, cleanups, failing, errors>>

(* replicatedPolicyUpdates to the queue.                                     *)
Deliver(p) ==
    /\ p \in sending
    /\ sending' = sending \ {p}
    /\ queue' = queue \cup {p}
    /\ UNCHANGED <<rootVars, apiVars, watching, pc, locals, held, served, mapVars, flagVars,
                   readers, cleanups, failing, listing, missed, errors>>

-----------------------------------------------------------------------------
Worker(p) ==
    \/ Reconcile(p) \/ RemoveReplicatedPolicy(p) \/ LeaveResolver(p)
    \/ GetDefault(p) \/ LookUp(p) \/ AddReference(p) \/ Upgrade(p) \/ InitFails(p)
    \/ Resolve(p) \/ WriteReplicated(p) \/ DeleteReplicated(p)

Background(x) == OnBackgroundError(x) \/ ListPolicies(x)

Goroutines == Ids \X {"watcher", "token"}

ResolversNext ==
    \/ \E p \in Policies : ChangeRoot(p) \/ CacheSync(p) \/ Worker(p) \/ Deliver(p)
    \/ \E a \in Accounts : ChangeAccount(a)
    \/ \E r \in Ids : CleanUp(r) \/ WatcherStops(r) \/ TokenRefreshFails(r)
    \/ \E x \in Goroutines : Background(x)

(* Workers and goroutines keep running and informers keep delivering.        *)
ResolversFairness ==
    /\ \A p \in Policies : WF_vars(Worker(p)) /\ WF_vars(CacheSync(p)) /\ WF_vars(Deliver(p))
    /\ \A r \in Ids : WF_vars(CleanUp(r))
    /\ \A x \in Goroutines : WF_vars(Background(x))

ResolversSpec == ResolversInit /\ [][ResolversNext]_vars /\ ResolversFairness
-----------------------------------------------------------------------------
(* Properties.                                                              *)

(* Type invariant; resolvers only refer to resolvers that were started, and  *)
(* a nil resolver is always marked canceled.                                 *)
ResolversTypeOK ==
    /\ wants \in [Policies -> Names] /\ present \subseteq Accounts
    /\ replica \in [Policies -> Names] /\ cache \in [Policies -> Names]
    /\ queue \subseteq Policies /\ forgotten \subseteq Policies
    /\ watching \in [Policies -> Accounts \cup {None}]
    /\ pc \in [Policies -> {"idle", "get", "remove", "check", "add", "upgrade",
                            "resolve", "missing", "failed", "write", "delete"}]
    /\ sa \in [Policies -> Names] /\ seen \in [Policies -> Names]
    /\ account \in [Policies -> Names]
    /\ made \in 0..MaxResolvers
    /\ held \in [Policies -> 0..made] /\ served \in [Policies -> 0..made]
    /\ current \in [Accounts -> 0..made]
    /\ owner \in [Ids -> Accounts \cup {None}] /\ ref \in [Ids -> Ids]
    /\ count \in [Ids -> Nat] /\ cleanups \in [Ids -> Nat]
    /\ nilled \subseteq canceled /\ canceled \subseteq Started
    /\ stopped \subseteq canceled /\ expired \subseteq Started
    /\ readers \subseteq Policies
    /\ failing \subseteq Goroutines /\ listing \subseteq Goroutines
    /\ sending \subseteq Policies /\ missed \subseteq Policies
    /\ changes \in 0..MaxChanges /\ errors \in 0..MaxErrors

(* referenceCount "is a counter for how many replicated policies rely on this *)
(* template resolver": whatever the interleaving of GetResolver,              *)
(* RemoveReplicatedPolicy, clean-ups and restarts, the account's counter is   *)
(* the number of policies mapped to it that are not about to be unmapped, and *)
(* no such policy is left with an account that has no resolver.               *)
Users(a) == {p \in Policies : account[p] = a /\ pc[p] # "check"}

CountExact ==
    \A a \in Accounts :
        IF current[a] = 0 THEN Users(a) = {}
        ELSE count[ref[current[a]]] = Cardinality(Users(a))

(* "If the global lock was acquired, this will be set as long as canceled is  *)
(* false": the resolver that a policy found not to be canceled under the read *)
(* lock is neither nil nor removed from the map when the pointer is followed. *)
NeverNil ==
    \A p \in readers :
        /\ held[p] \notin nilled
        /\ held[p] = current[owner[held[p]]]

(* Everything that can run without a new change or a new error has run.       *)
AtRest ==
    /\ queue = {} /\ sending = {} /\ failing = {} /\ listing = {}
    /\ \A p \in Policies : pc[p] = "idle" /\ cache[p] = replica[p]
    /\ \A r \in Ids : cleanups[r] = 0

(* After background errors, restarts and changes of the account, a policy     *)
(* whose templates use an account is watched by the account's resolver, which *)
(* runs; or it carries an error; or it is one of those onBackgroundError did  *)
(* not find in the cache.                                                     *)
ServedUnlessMissed ==
    AtRest =>
        \A p \in Policies \ missed :
            served[p] # 0 /\ wants[p] \in Accounts =>
                served[p] = current[wants[p]] /\ served[p] \notin canceled

(* A resolver that still runs at rest has a user, and a user is a policy that *)
(* names the account; the exception is a policy that was given up before its  *)
(* replica was ever stored, for which cleanUpReplicated is never called.      *)
NeverStored(p) == wants[p] = None /\ replica[p] = None

CollectedUnlessNeverStored ==
    AtRest =>
        \A a \in Accounts :
            Usable(a) => \E p \in Users(a) : wants[p] = a \/ NeverStored(p)

(* No policy waits forever for the lock or retries forever, and every         *)
(* background error is dealt with.                                            *)
EventuallyRests == []<>AtRest
=============================================================================
