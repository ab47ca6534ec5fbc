----------------------- MODULE TemplateResolvers_proofs -----------------------
(***************************************************************************)
(* The template resolvers for any number of policies, accounts, changes and *)
(* failures.  RInv makes every look-up under the read lock of globalLock    *)
(* safe: that a resolver which is not canceled is not nil (NilIsCanceled),  *)
(* that the map leads to resolvers of the account (OwnerSound) and that the *)
(* read lock is only held at two steps of a reconcile (LockSound).  On it   *)
(* rest the types (TypeInv) and the counters (CountInv), and on these what  *)
(* is found at rest: no resolver without a user (CollectInv) and no policy  *)
(* without its resolver (ServedInv).                                        *)
(***************************************************************************)
EXTENDS TemplateResolvers, FiniteSetTheorems, TLAPS

Steps == {"idle", "get", "remove", "check", "add", "upgrade",
          "resolve", "missing", "failed", "write", "delete"}

LocalsOK ==
    /\ wants \in [Policies -> Names] /\ sa \in [Policies -> Names]
    /\ account \in [Policies -> Names]
    /\ pc \in [Policies -> Steps]
    /\ held \in [Policies -> 0..MaxResolvers]
    /\ readers \subseteq Policies

MapOK ==
    /\ made \in 0..MaxResolvers
    /\ current \in [Accounts -> 0..made]
    /\ owner \in [Ids -> Accounts \cup {None}]

(* A reconcile on its way to a resolver has an account.                      *)
NamedSound ==
    \A p \in Policies :
        /\ pc[p] = "get" => sa[p] # None
        /\ pc[p] = "upgrade" => sa[p] \in Accounts

OwnerSound == \A a \in Accounts : current[a] # 0 => owner[current[a]] = a

NilIsCanceled == nilled \subseteq canceled

LockSound == \A p \in readers : pc[p] \in {"check", "add"}

RInv == LocalsOK /\ MapOK /\ NamedSound /\ OwnerSound /\ NilIsCanceled /\ LockSound
        /\ NeverNil

-----------------------------------------------------------------------------
(* The initial state.                                                       *)
LEMMA ResolversInitRInv == ResolversInit => RInv
BY AccountsAssumption, ResolverBoundsAssumption
DEF ResolversInit, RInv, LocalsOK, MapOK, NamedSound, OwnerSound, NilIsCanceled,
    LockSound, NeverNil, Names, Steps, Ids

(* Steps that touch neither the map of resolvers nor the locals of a          *)
(* reconcile.                                                                *)
LEMMA Elsewhere ==
    ASSUME RInv, wants' \in [Policies -> Names],
           UNCHANGED <<pc, sa, held, account, current, owner, made, readers>>,
           nilled' = nilled, canceled \subseteq canceled'
    PROVE  RInv'
BY DEF RInv, LocalsOK, MapOK, NamedSound, OwnerSound, NilIsCanceled, LockSound, NeverNil

(* Steps of a reconcile that neither look up nor start a resolver: the lock   *)
(* is kept by nobody new, and a policy that keeps it keeps its resolver.      *)
LEMMA WithoutLookUp ==
    ASSUME RInv, NEW p \in Policies, p \notin readers', readers' \subseteq readers,
           NEW s \in Steps, pc' = [pc EXCEPT ![p] = s],
           \/ held' = held
           \/ held' = [held EXCEPT ![p] = 0],
           account' \in [Policies -> Names],
           sa' \in [Policies -> Names], \A q \in Policies \ {p} : sa'[q] = sa[q],
           s = "get" => sa'[p] # None,
           s = "upgrade" => sa'[p] \in Accounts,
           UNCHANGED <<wants, current, owner, made, nilled, canceled>>
    PROVE  RInv'
<1>1. LocalsOK' /\ MapOK' /\ NilIsCanceled' /\ OwnerSound'
  <2>1. held' \in [Policies -> 0..MaxResolvers]
    <3>1. 0 \in 0..MaxResolvers /\ held \in [Policies -> 0..MaxResolvers]
      BY ResolverBoundsAssumption DEF RInv, LocalsOK
    <3> QED
      BY <3>1
  <2>2. pc' \in [Policies -> Steps] /\ readers' \subseteq Policies
    BY DEF RInv, LocalsOK
  <2> QED
    BY <2>1, <2>2 DEF RInv, LocalsOK, MapOK, NilIsCanceled, OwnerSound
<1>2. NamedSound'
  BY DEF RInv, LocalsOK, NamedSound
<1>3. LockSound' /\ NeverNil'
  <2> SUFFICES ASSUME NEW q \in readers'
               PROVE  /\ pc'[q] \in {"check", "add"}
                      /\ held'[q] \notin nilled'
                      /\ held'[q] = current'[owner'[held'[q]]]
    BY DEF LockSound, NeverNil
  <2>1. q # p /\ q \in Policies /\ q \in readers
    BY DEF RInv, LocalsOK
  <2>2. pc'[q] = pc[q] /\ held'[q] = held[q]
    BY <2>1 DEF RInv, LocalsOK
  <2> QED
    BY <2>1, <2>2 DEF RInv, LockSound, NeverNil
<1> QED
  BY <1>1, <1>2, <1>3 DEF RInv

(* Steps under the read lock that find a resolver which is not canceled.      *)
LEMMA FoundUnderLock ==
    ASSUME RInv, NEW p \in Policies, NEW a \in Accounts,
           current[a] # 0, current[a] \notin canceled,
           NEW s \in {"check", "add"}, pc' = [pc EXCEPT ![p] = s],
           held' = [held EXCEPT ![p] = current[a]],
           readers' = readers \cup {p},
           UNCHANGED <<wants, sa, account, current, owner, made, nilled, canceled>>
    PROVE  RInv'
<1>1. LocalsOK' /\ MapOK' /\ NilIsCanceled' /\ OwnerSound' /\ NamedSound'
  BY ResolverBoundsAssumption
  DEF RInv, LocalsOK, MapOK, NilIsCanceled, OwnerSound, NamedSound, Steps
<1>2. LockSound' /\ NeverNil'
  <2> SUFFICES ASSUME NEW q \in readers'
               PROVE  /\ pc'[q] \in {"check", "add"}
                      /\ held'[q] \notin nilled'
                      /\ held'[q] = current'[owner'[held'[q]]]
    BY DEF LockSound, NeverNil
  <2>1. CASE q = p
    BY <2>1 DEF RInv, LocalsOK, OwnerSound, NilIsCanceled
  <2>2. CASE q # p
    BY <2>2 DEF RInv, LocalsOK, LockSound, NeverNil
  <2> QED
    BY <2>1, <2>2
<1> QED
  BY <1>1, <1>2 DEF RInv

-----------------------------------------------------------------------------
(* Actions of a reconcile.                                                  *)
LEMMA WorkerRInv == ASSUME RInv, NEW p \in Policies, Worker(p) PROVE RInv'
<1> USE DEF rootVars, apiVars, locals, mapVars, flagVars, goVars
<1>0. /\ pc[p] \notin {"check", "add"} => p \notin readers
      /\ p \notin RUnlock(p) /\ RUnlock(p) \subseteq readers
  BY DEF RInv, LockSound, RUnlock
<1>1. CASE Reconcile(p)
  <2>1. pc'[p] \in {"get", "remove", "idle"} /\ pc' = [pc EXCEPT ![p] = pc'[p]]
    BY <1>1 DEF Reconcile, RInv, LocalsOK
  <2>2. pc'[p] = "get" => sa'[p] # None
    BY <1>1 DEF Reconcile, RInv, LocalsOK
  <2>3. sa' \in [Policies -> Names] /\ \A q \in Policies \ {p} : sa'[q] = sa[q]
    BY <1>1 DEF Reconcile, RInv, LocalsOK
  <2>4. p \notin readers
    BY <1>0, <1>1 DEF Reconcile
  <2>5. UNCHANGED <<wants, held, account, current, owner, made, nilled, canceled, readers>>
    BY <1>1 DEF Reconcile
  <2>6. account \in [Policies -> Names]
    BY DEF RInv, LocalsOK
  <2> DEFINE s == pc'[p]
  <2>7. s \in Steps /\ s # "upgrade"
    BY <2>1 DEF Steps
  <2> HIDE DEF s
  <2> QED
    BY <2>1, <2>2, <2>3, <2>4, <2>5, <2>6, <2>7, WithoutLookUp DEF s
<1>2. CASE RemoveReplicatedPolicy(p)
  <2>1. CASE NoResolverToLeave(p)
    <3>1. AfterRemoval(p) \in {"get", "delete"} /\ (AfterRemoval(p) = "get" => sa[p] # None)
      BY DEF AfterRemoval
    <3>2. account' = [account EXCEPT ![p] = None] /\ account' \in [Policies -> Names]
      BY <1>2, <2>1 DEF RemoveReplicatedPolicy, RInv, LocalsOK, Names
    <3>3. /\ pc' = [pc EXCEPT ![p] = AfterRemoval(p)]
          /\ UNCHANGED <<wants, sa, held, current, owner, made, nilled, canceled, readers>>
      BY <1>2, <2>1 DEF RemoveReplicatedPolicy
    <3>4. p \notin readers
      BY <1>0, <1>2 DEF RemoveReplicatedPolicy, NeedsRemoval
    <3>5. sa \in [Policies -> Names]
      BY DEF RInv, LocalsOK
    <3> DEFINE s == AfterRemoval(p)
    <3>6. s \in Steps /\ s # "upgrade" /\ (s = "get" => sa[p] # None)
      BY <3>1 DEF Steps
    <3> HIDE DEF s
    <3> QED
      BY <3>2, <3>3, <3>4, <3>5, <3>6, WithoutLookUp DEF s
  <2>2. CASE ~NoResolverToLeave(p)
    <3>1. account[p] \in Accounts /\ current[account[p]] # 0
          /\ current[account[p]] \notin canceled
      BY <2>2 DEF NoResolverToLeave, RInv, LocalsOK, Names
    <3> QED
      BY <1>2, <2>2, <3>1, FoundUnderLock DEF RemoveReplicatedPolicy
  <2> QED
    BY <2>1, <2>2
<1>3. CASE LeaveResolver(p)
  <2>1. /\ pc' = [pc EXCEPT ![p] = AfterRemoval(p)]
        /\ held' = [held EXCEPT ![p] = 0]
        /\ readers' = RUnlock(p)
        /\ UNCHANGED <<wants, sa, current, owner, made, nilled, canceled>>
    BY <1>3 DEF LeaveResolver
  <2>2. account' \in [Policies -> Names]
    BY <1>3 DEF LeaveResolver, RInv, LocalsOK, Names
  <2>3. sa \in [Policies -> Names]
    BY DEF RInv, LocalsOK
  <2> DEFINE s == AfterRemoval(p)
  <2>4. s \in Steps /\ s # "upgrade" /\ (s = "get" => sa[p] # None)
    BY DEF Steps, AfterRemoval
  <2> HIDE DEF s
  <2> QED
    BY <1>0, <2>1, <2>2, <2>3, <2>4, WithoutLookUp DEF s
<1>4. CASE GetDefault(p)
  <2>1. account' \in [Policies -> Names] /\ sa \in [Policies -> Names]
    BY <1>4 DEF GetDefault, RInv, LocalsOK, Names
  <2>2. "resolve" \in Steps
    BY DEF Steps
  <2> QED
    BY <1>0, <1>4, <2>1, <2>2, WithoutLookUp DEF GetDefault, Ready
<1>5. CASE LookUp(p)
  <2>0. sa[p] \in Accounts
    BY <1>5 DEF LookUp, Ready, RInv, LocalsOK, NamedSound, Names
  <2>1. CASE Usable(sa[p])
    BY <1>5, <2>0, <2>1, FoundUnderLock DEF LookUp, Usable
  <2>2. CASE ~Usable(sa[p])
    <3>1. account \in [Policies -> Names] /\ sa \in [Policies -> Names] /\ "upgrade" \in Steps
      BY DEF RInv, LocalsOK, Steps
    <3> QED
      BY <1>0, <1>5, <2>0, <2>2, <3>1, WithoutLookUp DEF LookUp, Ready
  <2> QED
    BY <2>1, <2>2
<1>6. CASE AddReference(p)
  <2>1. account' \in [Policies -> Names] /\ sa \in [Policies -> Names] /\ "resolve" \in Steps
    BY <1>6 DEF AddReference, RInv, LocalsOK, Steps
  <2> QED
    BY <1>0, <1>6, <2>1, WithoutLookUp DEF AddReference
<1>7. CASE Upgrade(p)
  <2>0. sa[p] \in Accounts /\ readers = {} /\ readers' = {}
    BY <1>7 DEF Upgrade, RInv, NamedSound
  <2>1. CASE Usable(sa[p])
    <3>1. UNCHANGED <<current, owner, made, nilled, canceled, wants, sa>>
      BY <1>7, <2>1 DEF Upgrade
    <3>2. LocalsOK'
      BY <1>7, <2>0, <2>1, ResolverBoundsAssumption
      DEF Upgrade, Usable, RInv, LocalsOK, MapOK, Steps, Names
    <3>3. NamedSound'
      BY <1>7, <3>1 DEF Upgrade, RInv, LocalsOK, NamedSound
    <3> QED
      BY <2>0, <3>1, <3>2, <3>3
      DEF RInv, MapOK, OwnerSound, NilIsCanceled, LockSound, NeverNil
  <2>2. CASE ~Usable(sa[p])
    <3>1. /\ made < MaxResolvers /\ made' = made + 1
          /\ owner' = [owner EXCEPT ![made + 1] = sa[p]]
          /\ current' = [current EXCEPT ![sa[p]] = made + 1]
          /\ held' = [held EXCEPT ![p] = made + 1]
          /\ account' = [account EXCEPT ![p] = sa[p]]
          /\ pc' = [pc EXCEPT ![p] = "resolve"]
          /\ UNCHANGED <<nilled, canceled, wants, sa>>
      BY <1>7, <2>2 DEF Upgrade
    <3>2. LocalsOK'
      BY <2>0, <3>1, ResolverBoundsAssumption DEF RInv, LocalsOK, MapOK, Steps, Names
    <3>3. MapOK'
      BY <2>0, <3>1, ResolverBoundsAssumption DEF RInv, MapOK, Ids
    <3>4. OwnerSound'
      <4> SUFFICES ASSUME NEW a \in Accounts, current'[a] # 0
                   PROVE  owner'[current'[a]] = a
        BY DEF OwnerSound
      <4>1. CASE a = sa[p]
        BY <2>0, <3>1, <4>1, ResolverBoundsAssumption DEF RInv, MapOK, Ids
      <4>2. CASE a # sa[p]
        <5>1. current'[a] = current[a] /\ current[a] \in 1..made
          BY <3>1, <4>2 DEF RInv, MapOK
        <5>2. current[a] # made + 1 /\ current[a] \in Ids
          BY <5>1, <3>1, ResolverBoundsAssumption DEF RInv, MapOK, Ids
        <5> QED
          BY <3>1, <5>1, <5>2 DEF RInv, MapOK, OwnerSound
      <4> QED
        BY <4>1, <4>2
    <3>5. NamedSound'
      BY <3>1 DEF RInv, LocalsOK, NamedSound
    <3> QED
      BY <2>0, <3>1, <3>2, <3>3, <3>4, <3>5 DEF RInv, NilIsCanceled, LockSound, NeverNil
  <2> QED
    BY <2>1, <2>2
<1>8. CASE InitFails(p)
  <2>1. account \in [Policies -> Names] /\ sa \in [Policies -> Names]
        /\ {"missing", "failed"} \subseteq Steps
    BY DEF RInv, LocalsOK, Steps
  <2>2. PICK s \in {"missing", "failed"} : pc' = [pc EXCEPT ![p] = s]
    BY <1>8 DEF InitFails
  <2> QED
    BY <1>0, <1>8, <2>1, <2>2, WithoutLookUp DEF InitFails
<1>9. CASE Resolve(p)
  <2>1. account \in [Policies -> Names] /\ sa \in [Policies -> Names]
        /\ {"write", "idle", "failed"} \subseteq Steps
    BY DEF RInv, LocalsOK, Steps
  <2>2. PICK s \in {"write", "idle", "failed"} : pc' = [pc EXCEPT ![p] = s]
    BY <1>9 DEF Resolve
  <2> QED
    BY <1>0, <1>9, <2>1, <2>2, WithoutLookUp DEF Resolve
<1>10. CASE WriteReplicated(p) \/ DeleteReplicated(p)
  <2>1. account \in [Policies -> Names] /\ sa \in [Policies -> Names] /\ "idle" \in Steps
    BY DEF RInv, LocalsOK, Steps
  <2>2. p \notin readers
    BY <1>0, <1>10 DEF WriteReplicated, DeleteReplicated
  <2>3. /\ pc' = [pc EXCEPT ![p] = "idle"]
        /\ UNCHANGED <<wants, sa, held, account, current, owner, made, nilled, canceled,
                       readers>>
    BY <1>10 DEF WriteReplicated, DeleteReplicated
  <2> QED
    BY <2>1, <2>2, <2>3, WithoutLookUp
<1> QED
  BY <1>1, <1>2, <1>3, <1>4, <1>5, <1>6, <1>7, <1>8, <1>9, <1>10 DEF Worker

(* The other goroutines: what changes the map or sets a resolver to nil has   *)
(* the write lock, so there is no reader.                                    *)
LEMMA NextRInv == RInv /\ [ResolversNext]_vars => RInv'
<1> SUFFICES ASSUME RInv, [ResolversNext]_vars PROVE RInv'
  OBVIOUS
<1> USE DEF rootVars, apiVars, locals, mapVars, flagVars, goVars
<1>0. wants \in [Policies -> Names]
  BY DEF RInv, LocalsOK
<1>1. ASSUME NEW p \in Policies, ChangeRoot(p) PROVE RInv'
  <2>1. wants' \in [Policies -> Names]
    BY <1>0, <1>1 DEF ChangeRoot
  <2> QED
    BY <1>1, <2>1, Elsewhere DEF ChangeRoot
<1>2. ASSUME NEW p \in Policies, CacheSync(p) \/ Deliver(p) PROVE RInv'
  BY <1>0, <1>2, Elsewhere DEF CacheSync, Deliver
<1>3. ASSUME NEW a \in Accounts, ChangeAccount(a) PROVE RInv'
  BY <1>0, <1>3, Elsewhere DEF ChangeAccount
<1>4. ASSUME NEW r \in Ids, WatcherStops(r) \/ TokenRefreshFails(r) PROVE RInv'
  BY <1>0, <1>4, Elsewhere DEF WatcherStops, TokenRefreshFails
<1>5. ASSUME NEW r \in Ids, CleanUp(r) PROVE RInv'
  <2>1. /\ readers = {} /\ canceled \subseteq canceled'
        /\ \/ current' = current
           \/ current' = [current EXCEPT ![owner[r]] = 0]
        /\ UNCHANGED <<wants, pc, sa, held, account, owner, made, nilled, readers>>
    BY <1>5 DEF CleanUp
  <2>2. MapOK' /\ OwnerSound'
    BY <2>1 DEF RInv, MapOK, OwnerSound
  <2> QED
    BY <2>1, <2>2 DEF RInv, LocalsOK, NamedSound, NilIsCanceled, LockSound, NeverNil
<1>6. ASSUME NEW x \in Goroutines, OnBackgroundError(x) PROVE RInv'
  <2>1. /\ readers = {}
        /\ \E hit : canceled' = canceled \cup hit /\ nilled' = nilled \cup hit
        /\ UNCHANGED <<wants, pc, sa, held, account, current, owner, made, readers>>
    BY <1>6 DEF OnBackgroundError, LockedByWriter
  <2>2. NilIsCanceled'
    BY <2>1 DEF RInv, NilIsCanceled
  <2> QED
    BY <2>1, <2>2 DEF RInv, LocalsOK, MapOK, NamedSound, OwnerSound, LockSound, NeverNil
<1>7. ASSUME NEW x \in Goroutines, ListPolicies(x) PROVE RInv'
  BY <1>0, <1>7, Elsewhere DEF ListPolicies
<1>8. CASE UNCHANGED vars
  BY <1>0, <1>8, Elsewhere DEF vars
<1> QED
  BY <1>1, <1>2, <1>3, <1>4, <1>5, <1>6, <1>7, <1>8, WorkerRInv DEF ResolversNext, Background

-----------------------------------------------------------------------------
(* The comment on the resolver field holds: a policy that has found a         *)
(* resolver under the read lock never follows a nil pointer and never uses a  *)
(* resolver that has left the map, whatever clean-ups, restarts and           *)
(* background errors run meanwhile.                                           *)
THEOREM FoundIsNeverNil == ResolversSpec => []NeverNil
<1>1. RInv => NeverNil
  BY DEF RInv
<1> QED
  BY <1>1, ResolversInitRInv, NextRInv, PTL DEF ResolversSpec

-----------------------------------------------------------------------------
(* Types.  That the counters never go below zero is CountInv's subject; here  *)
(* they are integers.                                                        *)
HubOK ==
    /\ present \subseteq Accounts
    /\ replica \in [Policies -> Names] /\ cache \in [Policies -> Names]
    /\ seen \in [Policies -> Names]
    /\ queue \subseteq Policies /\ forgotten \subseteq Policies
    /\ sending \subseteq Policies /\ missed \subseteq Policies
    /\ watching \in [Policies -> Accounts \cup {None}]
    /\ \A p \in Policies : pc[p] = "missing" => sa[p] \in Accounts
    /\ changes \in 0..MaxChanges /\ errors \in 0..MaxErrors

ResolversOK ==
    /\ held \in [Policies -> 0..made] /\ served \in [Policies -> 0..made]
    /\ ref \in [Ids -> Ids]
    /\ count \in [Ids -> Int] /\ cleanups \in [Ids -> Nat]

(* Goroutines are about resolvers that were started, and a watcher that has   *)
(* ended has marked its resolver.                                            *)
GoroutinesOK ==
    /\ canceled \subseteq Started /\ stopped \subseteq canceled /\ expired \subseteq Started
    /\ failing \subseteq Goroutines /\ listing \subseteq Goroutines
    /\ \A x \in failing \cup listing :
          x[1] \in Started /\ (x[2] = "watcher" => x[1] \in canceled)
    /\ \A r \in Ids : cleanups[r] > 0 => r \in Started
    /\ \A p \in Policies : pc[p] = "check" => held[p] # 0
    /\ \A r \in Started : owner[r] \in Accounts

TypeInv == RInv /\ HubOK /\ ResolversOK /\ GoroutinesOK

LEMMA InitTypeInv == ResolversInit => TypeInv
<1> SUFFICES ASSUME ResolversInit PROVE TypeInv
  OBVIOUS
<1>1. RInv
  BY ResolversInitRInv
<1>2. HubOK
  BY ResolverBoundsAssumption DEF ResolversInit, HubOK, Names
<1>3. ResolversOK
  BY ResolverBoundsAssumption DEF ResolversInit, ResolversOK, Ids
<1>4. GoroutinesOK
  BY DEF ResolversInit, GoroutinesOK, Started, Ids, Goroutines
<1> QED
  BY <1>1, <1>2, <1>3, <1>4 DEF TypeInv

LEMMA WorkerHubOK == ASSUME TypeInv, NEW p \in Policies, Worker(p) PROVE HubOK'
<1> USE DEF rootVars, apiVars, locals, mapVars, flagVars, goVars
<1>0. /\ \A q \in Policies : wants[q] \in Names /\ sa[q] \in Names
      /\ \A q \in Policies : pc[q] = "upgrade" => sa[q] \in Accounts
      /\ pc \in [Policies -> Steps] /\ sa \in [Policies -> Names]
      /\ None \in Names /\ HubOK
  BY DEF TypeInv, RInv, LocalsOK, NamedSound, Names
<1>e. Fails => errors' \in 0..MaxErrors
  BY <1>0, ResolverBoundsAssumption DEF HubOK, Fails
<1>1. CASE Reconcile(p)
  <2>1. /\ \A q \in Policies : pc'[q] = "missing" => q # p /\ pc[q] = "missing"
        /\ \A q \in Policies : q # p => sa'[q] = sa[q]
        /\ queue' \subseteq Policies /\ forgotten' \subseteq Policies
        /\ UNCHANGED <<present, replica, cache, sending, missed, watching, changes, errors>>
    BY <1>0, <1>1 DEF Reconcile, HubOK
  <2>2. seen' \in [Policies -> Names]
    BY <1>0, <1>1 DEF Reconcile, GetReplicated, HubOK
  <2> QED
    BY <1>0, <2>1, <2>2 DEF HubOK
<1>2. CASE RemoveReplicatedPolicy(p) \/ LeaveResolver(p)
  <2>1. AfterRemoval(p) # "missing"
    BY DEF AfterRemoval
  <2>2. \E s : s # "missing" /\ pc' = [pc EXCEPT ![p] = s]
    BY <1>2, <2>1 DEF RemoveReplicatedPolicy, LeaveResolver
  <2>3. UNCHANGED <<present, replica, cache, seen, sa, queue, forgotten, sending, missed,
                    watching, changes, errors>>
    BY <1>2 DEF RemoveReplicatedPolicy, LeaveResolver
  <2> QED
    BY <1>0, <2>2, <2>3 DEF HubOK
<1>3. CASE GetDefault(p) \/ LookUp(p) \/ AddReference(p) \/ Upgrade(p)
  <2>1. \E s : s # "missing" /\ pc' = [pc EXCEPT ![p] = s]
    BY <1>3 DEF GetDefault, LookUp, AddReference, Upgrade
  <2>2. UNCHANGED <<present, replica, cache, seen, sa, queue, forgotten, sending,
                    watching, changes, errors>>
    BY <1>3 DEF GetDefault, LookUp, AddReference, Upgrade
  <2>3. missed' \subseteq missed
    BY <1>3 DEF GetDefault, LookUp, AddReference, Upgrade
  <2> QED
    BY <1>0, <2>1, <2>2, <2>3 DEF HubOK
<1>4. CASE InitFails(p)
  <2>1. sa[p] \in Accounts /\ \E s : pc' = [pc EXCEPT ![p] = s]
    BY <1>0, <1>4 DEF InitFails
  <2>2. UNCHANGED <<present, replica, cache, seen, sa, queue, forgotten, sending, missed,
                    watching, changes>>
    BY <1>4 DEF InitFails
  <2>3. errors' \in 0..MaxErrors
    BY <1>0, <1>e, <1>4 DEF InitFails, HubOK
  <2> QED
    BY <1>0, <2>1, <2>2, <2>3 DEF HubOK
<1>5. CASE Resolve(p)
  <2>1. \E s : s # "missing" /\ pc' = [pc EXCEPT ![p] = s]
    BY <1>5 DEF Resolve
  <2>2. queue' \subseteq Policies
    BY <1>0, <1>5 DEF Resolve, HubOK
  <2>3. UNCHANGED <<present, replica, cache, seen, sa, forgotten, sending, missed,
                    watching, changes, errors>>
    BY <1>5 DEF Resolve
  <2> QED
    BY <1>0, <2>1, <2>2, <2>3 DEF HubOK
<1>6. CASE WriteReplicated(p)
  <2>1. watching' \in [Policies -> Accounts \cup {None}]
    BY <1>0, <1>6 DEF WriteReplicated, HubOK
  <2>2. /\ errors' \in 0..MaxErrors /\ replica' \in [Policies -> Names]
        /\ queue' \subseteq Policies /\ forgotten' \subseteq Policies
    BY <1>0, <1>e, <1>6 DEF WriteReplicated, HubOK
  <2>3. pc' = [pc EXCEPT ![p] = "idle"]
    BY <1>6 DEF WriteReplicated
  <2>4. UNCHANGED <<present, cache, seen, sa, sending, missed, changes>>
    BY <1>6 DEF WriteReplicated
  <2> QED
    BY <1>0, <2>1, <2>2, <2>3, <2>4 DEF HubOK
<1>7. CASE DeleteReplicated(p)
  <2>1. watching' \in [Policies -> Accounts \cup {None}]
    BY <1>0, <1>7 DEF DeleteReplicated, HubOK
  <2>2. /\ errors' \in 0..MaxErrors /\ replica' \in [Policies -> Names]
        /\ queue' \subseteq Policies /\ forgotten' \subseteq Policies
    BY <1>0, <1>e, <1>7 DEF DeleteReplicated, HubOK
  <2>3. pc' = [pc EXCEPT ![p] = "idle"]
    BY <1>7 DEF DeleteReplicated
  <2>4. UNCHANGED <<present, cache, seen, sa, sending, missed, changes>>
    BY <1>7 DEF DeleteReplicated
  <2> QED
    BY <1>0, <2>1, <2>2, <2>3, <2>4 DEF HubOK
<1> QED
  BY <1>1, <1>2, <1>3, <1>4, <1>5, <1>6, <1>7 DEF Worker

LEMMA NextHubOK == ASSUME TypeInv, [ResolversNext]_vars PROVE HubOK'
<1> USE DEF rootVars, apiVars, locals, mapVars, flagVars, goVars
<1>0. HubOK
  BY DEF TypeInv
<1>1. ASSUME NEW p \in Policies, ChangeRoot(p) PROVE HubOK'
  BY <1>0, <1>1, ResolverBoundsAssumption DEF ChangeRoot, HubOK
<1>2. ASSUME NEW p \in Policies, CacheSync(p) \/ Deliver(p) PROVE HubOK'
  BY <1>0, <1>2 DEF CacheSync, Deliver, HubOK
<1>3. ASSUME NEW a \in Accounts, ChangeAccount(a) PROVE HubOK'
  BY <1>0, <1>3, ResolverBoundsAssumption DEF ChangeAccount, HubOK
<1>4. ASSUME NEW r \in Ids, CleanUp(r) \/ WatcherStops(r) \/ TokenRefreshFails(r) PROVE HubOK'
  <2>1. errors' \in 0..MaxErrors
    BY <1>0, <1>4, ResolverBoundsAssumption
    DEF HubOK, Fails, CleanUp, WatcherStops, TokenRefreshFails
  <2>2. UNCHANGED <<present, replica, cache, seen, sa, queue, forgotten, sending, missed,
                    watching, changes, pc>>
    BY <1>4 DEF CleanUp, WatcherStops, TokenRefreshFails
  <2> QED
    BY <1>0, <2>1, <2>2 DEF HubOK
<1>5. ASSUME NEW x \in Goroutines, OnBackgroundError(x) \/ ListPolicies(x) PROVE HubOK'
  <2>1. sending' \subseteq Policies /\ missed' \subseteq Policies
    BY <1>0, <1>5 DEF HubOK, OnBackgroundError, ListPolicies, Listed
  <2>2. UNCHANGED <<present, replica, cache, seen, sa, queue, forgotten, watching, changes,
                    errors, pc>>
    BY <1>5 DEF OnBackgroundError, ListPolicies
  <2> QED
    BY <1>0, <2>1, <2>2 DEF HubOK
<1>6. CASE UNCHANGED vars
  BY <1>0, <1>6 DEF vars, HubOK
<1> QED
  BY <1>1, <1>2, <1>3, <1>4, <1>5, <1>6, WorkerHubOK DEF ResolversNext, Background

(* Assigning to an entry keeps the type, whether or not there is one.         *)
LEMMA EntryType ==
    ASSUME NEW S, NEW f \in [Ids -> S], NEW c, NEW v, c \in Ids => v \in S
    PROVE  [f EXCEPT ![c] = v] \in [Ids -> S]
OBVIOUS

LEMMA WorkerResolversOK == ASSUME TypeInv, NEW p \in Policies, Worker(p) PROVE ResolversOK'
<1> USE DEF rootVars, apiVars, locals, mapVars, flagVars, goVars
<1>0. /\ ResolversOK /\ made \in 0..MaxResolvers /\ current \in [Accounts -> 0..made]
      /\ account \in [Policies -> Names]
      /\ pc[p] = "get" => sa[p] # None
      /\ pc[p] = "upgrade" => sa[p] \in Accounts
      /\ 0 \in 0..made
  BY ResolverBoundsAssumption DEF TypeInv, RInv, LocalsOK, MapOK, NamedSound
<1>c. ASSUME NEW c PROVE Referenced(p, count, c) \in [Ids -> Int]
  <2>1. count \in [Ids -> Int] /\ (c \in Ids => count[c] + 1 \in Int)
    BY <1>0 DEF ResolversOK
  <2>2. [count EXCEPT ![c] = @ + 1] \in [Ids -> Int]
    BY <2>1, EntryType
  <2> QED
    BY <2>1, <2>2 DEF Referenced
<1>1. CASE Reconcile(p)
  BY <1>0, <1>1 DEF Reconcile, ResolversOK
<1>2. CASE RemoveReplicatedPolicy(p)
  <2>1. count' \in [Ids -> Int]
    <3> DEFINE c == ref[current[account[p]]]
    <3>1. count \in [Ids -> Int] /\ (c \in Ids => count[c] - 1 \in Int)
      BY <1>0 DEF ResolversOK
    <3>2. [count EXCEPT ![c] = count[c] - 1] \in [Ids -> Int]
      <4> HIDE DEF c
      <4> QED
        BY <3>1, EntryType
    <3>3. Decremented(p) = [count EXCEPT ![c] = count[c] - 1]
      BY DEF Decremented
    <3> HIDE DEF c
    <3> QED
      BY <1>2, <3>1, <3>2, <3>3 DEF RemoveReplicatedPolicy
  <2>2. held' \in [Policies -> 0..made]
    <3>1. CASE NoResolverToLeave(p)
      BY <1>0, <1>2, <3>1 DEF RemoveReplicatedPolicy, ResolversOK
    <3>2. CASE ~NoResolverToLeave(p)
      <4>1. current[account[p]] \in 0..made
        BY <1>0, <3>2 DEF NoResolverToLeave, Names
      <4> QED
        BY <1>0, <1>2, <3>2, <4>1 DEF RemoveReplicatedPolicy, ResolversOK
    <3> QED
      BY <3>1, <3>2
  <2>3. UNCHANGED <<made, served, ref, cleanups>>
    BY <1>2 DEF RemoveReplicatedPolicy
  <2> QED
    BY <1>0, <2>1, <2>2, <2>3 DEF ResolversOK
<1>3. CASE LeaveResolver(p)
  <2>1. cleanups' \in [Ids -> Nat]
    <3>1. held[p] \in Ids => cleanups[held[p]] + 1 \in Nat
      BY <1>0 DEF ResolversOK
    <3>2. [cleanups EXCEPT ![held[p]] = @ + 1] \in [Ids -> Nat]
      BY <1>0, <3>1, EntryType DEF ResolversOK
    <3> QED
      BY <1>0, <1>3, <3>2 DEF LeaveResolver, ResolversOK
  <2> QED
    BY <1>0, <1>3, <2>1 DEF LeaveResolver, ResolversOK
<1>4. CASE GetDefault(p)
  BY <1>0, <1>4 DEF GetDefault, ResolversOK
<1>5. CASE LookUp(p)
  <2>1. Usable(sa[p]) => current[sa[p]] \in 0..made
    <3>1. sa[p] \in Accounts
      BY <1>0, <1>5 DEF LookUp, Ready, TypeInv, RInv, LocalsOK, Names
    <3> QED
      BY <1>0, <3>1
  <2>2. held' \in [Policies -> 0..made]
    BY <1>0, <1>5, <2>1 DEF LookUp, ResolversOK
  <2>3. UNCHANGED <<made, served, ref, count, cleanups>>
    BY <1>5 DEF LookUp
  <2> QED
    BY <1>0, <2>2, <2>3 DEF ResolversOK
<1>6. CASE AddReference(p)
  <2>1. count' \in [Ids -> Int]
    BY <1>c, <1>6 DEF AddReference
  <2> QED
    BY <1>0, <1>6, <2>1 DEF AddReference, ResolversOK
<1>7. CASE Upgrade(p)
  <2>0. sa[p] \in Accounts /\ UNCHANGED <<served, cleanups>>
    BY <1>0, <1>7 DEF Upgrade
  <2>1. CASE Usable(sa[p])
    <3>1. count' \in [Ids -> Int] /\ UNCHANGED <<made, ref>>
      BY <1>c, <1>7, <2>1 DEF Upgrade
    <3>2. held' \in [Policies -> 0..made]
      BY <1>0, <1>7, <2>0, <2>1 DEF Upgrade, ResolversOK
    <3> QED
      BY <1>0, <2>0, <3>1, <3>2 DEF ResolversOK
  <2>2. CASE ~Usable(sa[p])
    <3>1. /\ made < MaxResolvers /\ made' = made + 1
          /\ ref' = [ref EXCEPT ![made + 1] = CopiedRef(sa[p], made + 1)]
          /\ held' = [held EXCEPT ![p] = made + 1]
          /\ count' = Referenced(p, count, CopiedRef(sa[p], made + 1))
      BY <1>7, <2>2 DEF Upgrade
    <3>2. count' \in [Ids -> Int]
      BY <1>c, <3>1
    <3>3. CopiedRef(sa[p], made + 1) \in Ids
      <4>1. made + 1 \in Ids
        BY <1>0, <3>1, ResolverBoundsAssumption DEF Ids
      <4>2. current[sa[p]] # 0 => current[sa[p]] \in Ids
        BY <1>0, <2>0, ResolverBoundsAssumption DEF Ids
      <4> QED
        BY <1>0, <4>1, <4>2 DEF CopiedRef, ResolversOK
    <3>4. ref' \in [Ids -> Ids]
      BY <1>0, <3>1, <3>3 DEF ResolversOK
    <3>5. held' \in [Policies -> 0..made'] /\ served' \in [Policies -> 0..made']
      <4>1. 0..made \subseteq 0..made' /\ made + 1 \in 0..made'
        BY <1>0, <3>1, ResolverBoundsAssumption
      <4> QED
        BY <1>0, <2>0, <3>1, <4>1 DEF ResolversOK
    <3> QED
      BY <1>0, <2>0, <3>2, <3>4, <3>5 DEF ResolversOK
  <2> QED
    BY <2>1, <2>2
<1>8. CASE InitFails(p)
  <2>1. held' = [held EXCEPT ![p] = 0] /\ UNCHANGED <<made, served, ref, count, cleanups>>
    BY <1>8 DEF InitFails
  <2> QED
    BY <1>0, <2>1 DEF ResolversOK
<1>9. CASE Resolve(p)
  <2>1. served' \in [Policies -> 0..made]
    BY <1>0, <1>9 DEF Resolve, ResolversOK
  <2>2. held' = [held EXCEPT ![p] = 0] /\ UNCHANGED <<made, ref, count, cleanups>>
    BY <1>9 DEF Resolve
  <2> QED
    BY <1>0, <2>1, <2>2 DEF ResolversOK
<1>10. CASE WriteReplicated(p) \/ DeleteReplicated(p)
  <2>1. served' = served \/ served' = [served EXCEPT ![p] = 0]
    BY <1>10 DEF WriteReplicated, DeleteReplicated
  <2>2. UNCHANGED <<made, held, ref, count, cleanups>>
    BY <1>10 DEF WriteReplicated, DeleteReplicated
  <2> QED
    BY <1>0, <2>1, <2>2 DEF ResolversOK
<1> QED
  BY <1>1, <1>2, <1>3, <1>4, <1>5, <1>6, <1>7, <1>8, <1>9, <1>10 DEF Worker

LEMMA NextResolversOK == ASSUME TypeInv, [ResolversNext]_vars PROVE ResolversOK'
<1> USE DEF rootVars, apiVars, locals, mapVars, flagVars, goVars
<1>0. ResolversOK
  BY DEF TypeInv
<1>1. ASSUME NEW p \in Policies, ChangeRoot(p) \/ CacheSync(p) \/ Deliver(p) PROVE ResolversOK'
  BY <1>0, <1>1 DEF ChangeRoot, CacheSync, Deliver, ResolversOK
<1>2. ASSUME NEW a \in Accounts, ChangeAccount(a) PROVE ResolversOK'
  BY <1>0, <1>2 DEF ChangeAccount, ResolversOK
<1>3. ASSUME NEW r \in Ids, CleanUp(r) PROVE ResolversOK'
  <2>1. cleanups' \in [Ids -> Nat]
    BY <1>0, <1>3 DEF CleanUp, ResolversOK
  <2> QED
    BY <1>0, <1>3, <2>1 DEF CleanUp, ResolversOK
<1>4. ASSUME NEW r \in Ids, WatcherStops(r) \/ TokenRefreshFails(r) PROVE ResolversOK'
  BY <1>0, <1>4 DEF WatcherStops, TokenRefreshFails, ResolversOK
<1>5. ASSUME NEW x \in Goroutines, OnBackgroundError(x) \/ ListPolicies(x) PROVE ResolversOK'
  BY <1>0, <1>5 DEF OnBackgroundError, ListPolicies, ResolversOK
<1>6. CASE UNCHANGED vars
  BY <1>0, <1>6 DEF vars, ResolversOK
<1> QED
  BY <1>1, <1>2, <1>3, <1>4, <1>5, <1>6, WorkerResolversOK DEF ResolversNext, Background

(* Steps that start neither a resolver nor a goroutine.                       *)
LEMMA SameGoroutines ==
    ASSUME GoroutinesOK,
           UNCHANGED <<canceled, stopped, expired, failing, listing, cleanups, made, owner>>,
           \A q \in Policies : pc'[q] = "check" => held'[q] # 0
    PROVE  GoroutinesOK'
BY DEF GoroutinesOK, Started

LEMMA WorkerGoroutinesOK == ASSUME TypeInv, NEW p \in Policies, Worker(p) PROVE GoroutinesOK'
<1> USE DEF rootVars, apiVars, locals, mapVars, flagVars, goVars
<1>0. /\ GoroutinesOK /\ made \in 0..MaxResolvers
      /\ pc \in [Policies -> Steps]
      /\ held \in [Policies -> 0..made]
      /\ \A q \in Policies : pc[q] = "check" => held[q] # 0
      /\ pc[p] = "upgrade" => sa[p] \in Accounts
  BY DEF TypeInv, RInv, LocalsOK, MapOK, NamedSound, GoroutinesOK, ResolversOK
<1>1. CASE Reconcile(p)
  <2>1. \A q \in Policies : pc'[q] = "check" => held'[q] # 0
    BY <1>0, <1>1 DEF Reconcile
  <2> QED
    BY <1>0, <1>1, <2>1, SameGoroutines DEF Reconcile
<1>2. CASE RemoveReplicatedPolicy(p)
  <2>1. \A q \in Policies : pc'[q] = "check" => held'[q] # 0
    <3>1. CASE NoResolverToLeave(p)
      BY <1>0, <1>2, <3>1 DEF RemoveReplicatedPolicy, AfterRemoval
    <3>2. CASE ~NoResolverToLeave(p)
      BY <1>0, <1>2, <3>2 DEF RemoveReplicatedPolicy, NoResolverToLeave
    <3> QED
      BY <3>1, <3>2
  <2> QED
    BY <1>0, <1>2, <2>1, SameGoroutines DEF RemoveReplicatedPolicy
<1>3. CASE LeaveResolver(p)
  <2>1. \A q \in Policies : pc'[q] = "check" => held'[q] # 0
    BY <1>0, <1>3 DEF LeaveResolver, AfterRemoval
  <2>2. held[p] \in Started
    BY <1>0, <1>3, ResolverBoundsAssumption DEF LeaveResolver, Started
  <2>3. \A r \in Ids : cleanups'[r] > 0 => r \in Started
    BY <1>0, <1>3, <2>2 DEF LeaveResolver, GoroutinesOK, TypeInv, ResolversOK
  <2>4. UNCHANGED <<canceled, stopped, expired, failing, listing, made, owner>>
    BY <1>3 DEF LeaveResolver
  <2> QED
    BY <1>0, <2>1, <2>3, <2>4 DEF GoroutinesOK, Started
<1>4. CASE GetDefault(p) \/ LookUp(p) \/ AddReference(p) \/ InitFails(p) \/ Resolve(p)
  <2>1. /\ \E s : s # "check" /\ pc' = [pc EXCEPT ![p] = s]
        /\ \A q \in Policies : q # p => held'[q] = held[q]
    BY <1>0, <1>4 DEF GetDefault, LookUp, AddReference, InitFails, Resolve
  <2>2. \A q \in Policies : pc'[q] = "check" => held'[q] # 0
    BY <1>0, <2>1
  <2>3. UNCHANGED <<canceled, stopped, expired, failing, listing, cleanups, made, owner>>
    BY <1>4 DEF GetDefault, LookUp, AddReference, InitFails, Resolve
  <2> QED
    BY <1>0, <2>2, <2>3, SameGoroutines
<1>5. CASE WriteReplicated(p) \/ DeleteReplicated(p)
  <2>1. pc' = [pc EXCEPT ![p] = "idle"] /\ held' = held
    BY <1>5 DEF WriteReplicated, DeleteReplicated
  <2>2. \A q \in Policies : pc'[q] = "check" => held'[q] # 0
    BY <1>0, <2>1
  <2>3. UNCHANGED <<canceled, stopped, expired, failing, listing, cleanups, made, owner>>
    BY <1>5 DEF WriteReplicated, DeleteReplicated
  <2> QED
    BY <1>0, <2>2, <2>3, SameGoroutines
<1>6. CASE Upgrade(p)
  <2>1. /\ pc' = [pc EXCEPT ![p] = "resolve"]
        /\ \A q \in Policies : q # p => held'[q] = held[q]
    BY <1>0, <1>6 DEF Upgrade
  <2>2. \A q \in Policies : pc'[q] = "check" => held'[q] # 0
    BY <1>0, <2>1
  <2>3. UNCHANGED <<canceled, stopped, expired, failing, listing, cleanups>>
    BY <1>6 DEF Upgrade
  <2>4. \/ UNCHANGED <<made, owner>>
        \/ made' = made + 1 /\ owner' = [owner EXCEPT ![made + 1] = sa[p]] /\ made < MaxResolvers
    BY <1>6 DEF Upgrade
  <2>5. Started \subseteq Started'
    BY <1>0, <2>4, ResolverBoundsAssumption DEF Started
  <2>6. \A r \in Started' : owner'[r] \in Accounts
    <3>1. CASE UNCHANGED <<made, owner>>
      BY <1>0, <3>1 DEF GoroutinesOK, Started
    <3>2. CASE made' = made + 1 /\ owner' = [owner EXCEPT ![made + 1] = sa[p]]
               /\ made < MaxResolvers
      <4>1. sa[p] \in Accounts /\ owner \in [Ids -> Accounts \cup {None}]
        BY <1>0, <1>6 DEF Upgrade, TypeInv, RInv, MapOK
      <4>2. \A r \in Started' : r \in Ids /\ (r \in Started \/ r = made + 1)
        BY <1>0, <3>2, ResolverBoundsAssumption DEF Started, Ids
      <4> QED
        BY <1>0, <3>2, <4>1, <4>2 DEF GoroutinesOK
    <3> QED
      BY <2>4, <3>1, <3>2
  <2> QED
    BY <1>0, <2>2, <2>3, <2>5, <2>6 DEF GoroutinesOK
<1> QED
  BY <1>1, <1>2, <1>3, <1>4, <1>5, <1>6 DEF Worker

LEMMA NextGoroutinesOK == ASSUME TypeInv, [ResolversNext]_vars PROVE GoroutinesOK'
<1> USE DEF rootVars, apiVars, locals, mapVars, flagVars, goVars
<1>0. /\ GoroutinesOK
      /\ \A q \in Policies : pc[q] = "check" => held[q] # 0
  BY DEF TypeInv, GoroutinesOK
<1>1. ASSUME NEW p \in Policies, ChangeRoot(p) \/ CacheSync(p) \/ Deliver(p) PROVE GoroutinesOK'
  BY <1>0, <1>1, SameGoroutines DEF ChangeRoot, CacheSync, Deliver
<1>2. ASSUME NEW a \in Accounts, ChangeAccount(a) PROVE GoroutinesOK'
  BY <1>0, <1>2, SameGoroutines DEF ChangeAccount
<1>3. ASSUME NEW r \in Ids, CleanUp(r) PROVE GoroutinesOK'
  <2>1. r \in Started /\ cleanups \in [Ids -> Nat]
    BY <1>0, <1>3 DEF CleanUp, GoroutinesOK, TypeInv, ResolversOK
  <2>2. \A s \in Ids : cleanups'[s] > 0 => s \in Started
    BY <1>0, <1>3, <2>1 DEF CleanUp, GoroutinesOK
  <2>3. /\ \/ canceled' = canceled /\ stopped' = stopped
           \/ canceled' = canceled \cup {r} /\ stopped' = stopped \cup {r}
        /\ UNCHANGED <<expired, failing, listing, made, owner, pc, held>>
    BY <1>3 DEF CleanUp
  <2> QED
    BY <1>0, <2>1, <2>2, <2>3 DEF GoroutinesOK, Started
<1>4. ASSUME NEW r \in Ids, WatcherStops(r) PROVE GoroutinesOK'
  BY <1>0, <1>4 DEF WatcherStops, GoroutinesOK, Started, Goroutines
<1>5. ASSUME NEW r \in Ids, TokenRefreshFails(r) PROVE GoroutinesOK'
  BY <1>0, <1>5 DEF TokenRefreshFails, GoroutinesOK, Started, Goroutines
<1>6. ASSUME NEW x \in Goroutines, OnBackgroundError(x) PROVE GoroutinesOK'
  <2>1. x[1] \in Started /\ owner[x[1]] \in Accounts
    BY <1>0, <1>6 DEF OnBackgroundError, GoroutinesOK
  <2>2. current[owner[x[1]]] # 0 => current[owner[x[1]]] \in Started
    BY <2>1, ResolverBoundsAssumption DEF TypeInv, RInv, MapOK, Started
  <2>3. \E hit : /\ hit \subseteq Started
                 /\ canceled' = canceled \cup hit /\ stopped' = stopped \cup hit
    BY <1>6, <2>2 DEF OnBackgroundError
  <2>4. /\ failing' = failing \ {x} /\ listing' = listing \cup {x} /\ x \in failing
        /\ UNCHANGED <<expired, cleanups, made, owner, pc, held>>
    BY <1>6 DEF OnBackgroundError
  <2> QED
    BY <1>0, <2>3, <2>4 DEF GoroutinesOK, Started
<1>7. ASSUME NEW x \in Goroutines, ListPolicies(x) PROVE GoroutinesOK'
  <2>1. stopped' \subseteq canceled
    BY <1>0, <1>7 DEF ListPolicies, GoroutinesOK
  <2> QED
    BY <1>0, <1>7, <2>1 DEF ListPolicies, GoroutinesOK, Started
<1>8. CASE UNCHANGED vars
  BY <1>0, <1>8, SameGoroutines DEF vars
<1> QED
  BY <1>1, <1>2, <1>3, <1>4, <1>5, <1>6, <1>7, <1>8, WorkerGoroutinesOK
  DEF ResolversNext, Background

LEMMA NextTypeInv == TypeInv /\ [ResolversNext]_vars => TypeInv'
BY NextRInv, NextHubOK, NextResolversOK, NextGoroutinesOK DEF TypeInv

LEMMA ResolversTypeInv == ResolversSpec => []TypeInv
BY InitTypeInv, NextTypeInv, PTL DEF ResolversSpec

-----------------------------------------------------------------------------
(* The reference counters.  A resolver shares its counter only with resolvers *)
(* of its account, a counter nobody has is 0, and what is neither canceled    *)
(* nor in the map does not exist: a clean-up that finds its resolver not      *)
(* canceled removes that one from the map, not a successor.                   *)
RefSound ==
    /\ \A r \in Started : ref[r] \in Started /\ owner[ref[r]] = owner[r]
    /\ \A r \in Ids \ Started : ref[r] = r /\ count[r] = 0

LiveIsCurrent == \A r \in Started \ canceled : current[owner[r]] = r

(* A policy about to add its reference holds the lock and the account's       *)
(* resolver.                                                                 *)
JoinSound ==
    \A p \in Policies :
        /\ pc[p] \in {"add", "upgrade"} => account[p] \in {None, sa[p]}
        /\ pc[p] = "add" => /\ p \in readers /\ sa[p] \in Accounts
                            /\ held[p] = current[sa[p]] /\ held[p] # 0

CountInv == count \in [Ids -> Nat] /\ RefSound /\ LiveIsCurrent /\ JoinSound /\ CountExact

LEMMA UsersFinite ==
    ASSUME NEW a PROVE IsFiniteSet(Users(a)) /\ Cardinality(Users(a)) \in Nat
<1>1. Users(a) \in SUBSET Policies
  BY DEF Users
<1> QED
  BY <1>1, AccountsAssumption, FS_Subset, FS_CardinalityType

(* Users of an account after a policy has joined or left.                     *)
LEMMA UsersJoined ==
    ASSUME TypeInv, NEW p \in Policies, NEW a \in Accounts, account[p] \in {None, a},
           pc[p] # "check", NEW s, s # "check", pc' = [pc EXCEPT ![p] = s],
           account' = [account EXCEPT ![p] = a]
    PROVE  /\ \A b \in Accounts \ {a} : Users(b)' = Users(b)
           /\ account[p] = a => Users(a)' = Users(a) /\ p \in Users(a)
           /\ account[p] # a => Cardinality(Users(a)') = Cardinality(Users(a)) + 1
           /\ p \in Users(a)'
<1>0. account \in [Policies -> Names] /\ pc \in [Policies -> Steps] /\ None \notin Accounts
  BY AccountsAssumption DEF TypeInv, RInv, LocalsOK
<1>1. \A b \in Accounts \ {a} : Users(b)' = Users(b)
  BY <1>0 DEF Users
<1>2. Users(a)' = Users(a) \cup {p}
  BY <1>0 DEF Users
<1>3. p \in Users(a) <=> account[p] = a
  BY DEF Users
<1>4. Cardinality(Users(a) \cup {p}) =
          IF p \in Users(a) THEN Cardinality(Users(a)) ELSE Cardinality(Users(a)) + 1
  BY UsersFinite, FS_AddElement
<1> QED
  BY <1>1, <1>2, <1>3, <1>4

LEMMA UsersLeft ==
    ASSUME TypeInv, NEW p \in Policies, NEW a \in Accounts, account[p] = a, pc[p] # "check",
           NEW s, pc' = [pc EXCEPT ![p] = s],
           \/ account' = account /\ s = "check"
           \/ account' = [account EXCEPT ![p] = None]
    PROVE  /\ \A b \in Accounts \ {a} : Users(b)' = Users(b)
           /\ Cardinality(Users(a)') = Cardinality(Users(a)) - 1
           /\ Cardinality(Users(a)) > 0 /\ Users(a) # {}
<1>0. account \in [Policies -> Names] /\ pc \in [Policies -> Steps] /\ None \notin Accounts
  BY AccountsAssumption DEF TypeInv, RInv, LocalsOK
<1>1. \A b \in Accounts \ {a} : Users(b)' = Users(b)
  BY <1>0 DEF Users
<1>2. Users(a)' = Users(a) \ {p} /\ p \in Users(a)
  BY <1>0 DEF Users
<1>3. Cardinality(Users(a) \ {p}) = Cardinality(Users(a)) - 1
  BY <1>2, UsersFinite, FS_RemoveElement
<1>4. Cardinality(Users(a)) # 0
  BY <1>2, UsersFinite, FS_EmptySet
<1> QED
  BY <1>1, <1>2, <1>3, <1>4, UsersFinite

(* Different accounts have different counters.                                *)
LEMMA CountersDiffer ==
    ASSUME TypeInv, CountInv, NEW a \in Accounts, NEW b \in Accounts, a # b,
           current[a] # 0, current[b] # 0
    PROVE  ref[current[a]] # ref[current[b]]
<1>1. current[a] \in Started /\ current[b] \in Started
  BY ResolverBoundsAssumption DEF TypeInv, RInv, MapOK, Started
<1>2. owner[current[a]] = a /\ owner[current[b]] = b
  BY DEF TypeInv, RInv, OwnerSound
<1> QED
  BY <1>1, <1>2 DEF CountInv, RefSound

(* Steps that leave the counters and the map alone.                           *)
LEMMA CountElsewhere ==
    ASSUME TypeInv, CountInv,
           UNCHANGED <<account, current, owner, ref, count, made>>, canceled \subseteq canceled',
           \A q \in Policies : pc'[q] = "check" <=> pc[q] = "check",
           \A q \in Policies : pc'[q] \in {"add", "upgrade"} =>
               /\ pc'[q] = pc[q] /\ sa'[q] = sa[q] /\ held'[q] = held[q]
               /\ q \in readers => q \in readers'
    PROVE  CountInv'
<1>1. \A a : Users(a)' = Users(a)
  BY DEF Users
<1>2. CountExact'
  BY <1>1 DEF CountInv, CountExact
<1>3. RefSound' /\ LiveIsCurrent'
  BY DEF CountInv, RefSound, LiveIsCurrent, Started
<1>4. JoinSound'
  BY DEF CountInv, JoinSound
<1> QED
  BY <1>2, <1>3, <1>4 DEF CountInv

LEMMA InitCountInv == ResolversInit => CountInv
<1> SUFFICES ASSUME ResolversInit PROVE CountInv
  OBVIOUS
<1>1. count \in [Ids -> Nat] /\ RefSound /\ LiveIsCurrent /\ JoinSound
  BY DEF ResolversInit, RefSound, LiveIsCurrent, JoinSound, Started, Ids
<1>2. CountExact
  BY AccountsAssumption DEF ResolversInit, CountExact, Users
<1> QED
  BY <1>1, <1>2 DEF CountInv

(* A policy adds its reference to a resolver of the map.                       *)
LEMMA JoinCountInv ==
    ASSUME TypeInv, CountInv, NEW p \in Policies, NEW a \in Accounts, sa[p] = a,
           account[p] \in {None, a}, pc[p] # "check", current[a] # 0,
           count' = Referenced(p, count, ref[current[a]]),
           account' = [account EXCEPT ![p] = a], pc' = [pc EXCEPT ![p] = "resolve"],
           \A q \in Policies \ {p} : held'[q] = held[q] /\ (q \in readers => q \in readers'),
           UNCHANGED <<sa, current, owner, ref, made, canceled>>
    PROVE  CountInv'
<1> DEFINE c == ref[current[a]]
<1>0. /\ pc \in [Policies -> Steps] /\ account \in [Policies -> Names]
      /\ count \in [Ids -> Nat] /\ count[c] = Cardinality(Users(a))
      /\ c \in Started /\ c \in Ids
  <2>1. current[a] \in Started
    BY ResolverBoundsAssumption DEF TypeInv, RInv, MapOK, Started
  <2>2. c \in Started /\ \A r \in Started : r \in Ids
    BY <2>1, ResolverBoundsAssumption DEF CountInv, RefSound, TypeInv, RInv, MapOK, Started, Ids
  <2> QED
    BY <2>2 DEF TypeInv, RInv, LocalsOK, CountInv, CountExact
<1>1. count' = IF account[p] = a THEN count ELSE [count EXCEPT ![c] = @ + 1]
  BY DEF Referenced
<1> HIDE DEF c
<1>2. count' \in [Ids -> Nat] /\ \A r \in Ids \ {c} : count'[r] = count[r]
  <2>1. count[c] + 1 \in Nat
    BY <1>0
  <2> QED
    BY <1>0, <1>1, <2>1
<1>3. /\ \A b \in Accounts \ {a} : Users(b)' = Users(b)
      /\ account[p] = a => Users(a)' = Users(a) /\ p \in Users(a)
      /\ account[p] # a => Cardinality(Users(a)') = Cardinality(Users(a)) + 1
  BY UsersJoined
<1>4. CountExact'
  <2> SUFFICES ASSUME NEW b \in Accounts
               PROVE  IF current'[b] = 0 THEN Users(b)' = {}
                      ELSE count'[ref'[current'[b]]] = Cardinality(Users(b)')
    BY DEF CountExact
  <2>1. CASE b = a
    <3>1. count'[c] = Cardinality(Users(a)')
      BY <1>0, <1>1, <1>3
    <3> QED
      BY <2>1, <3>1 DEF c
  <2>2. CASE b # a /\ current[b] = 0
    BY <1>3, <2>2 DEF CountInv, CountExact
  <2>3. CASE b # a /\ current[b] # 0
    <3>1. ref[current[b]] # c
      BY <2>3, CountersDiffer DEF c
    <3>2. ref[current[b]] \in Ids
      <4>1. current[b] \in Ids
        BY <2>3, ResolverBoundsAssumption DEF TypeInv, RInv, MapOK, Ids
      <4> QED
        BY <4>1 DEF TypeInv, ResolversOK
    <3>3. count'[ref[current[b]]] = count[ref[current[b]]]
      BY <1>2, <3>1, <3>2
    <3> QED
      BY <1>3, <2>3, <3>3 DEF CountInv, CountExact
  <2> QED
    BY <2>1, <2>2, <2>3
<1>5. RefSound' /\ LiveIsCurrent'
  BY <1>0, <1>2 DEF CountInv, RefSound, LiveIsCurrent, Started
<1>6. JoinSound'
  BY <1>0 DEF CountInv, JoinSound
<1> QED
  BY <1>2, <1>4, <1>5, <1>6 DEF CountInv

(* A new resolver takes over the counter of the canceled one it replaces.     *)
LEMMA RestartCountInv ==
    ASSUME TypeInv, CountInv, NEW p \in Policies, pc[p] = "upgrade", Upgrade(p), ~Usable(sa[p])
    PROVE  CountInv'
<1> USE DEF rootVars, apiVars, locals, mapVars, flagVars, goVars
<1>0. PICK a \in Accounts : a = sa[p]
  BY DEF TypeInv, RInv, NamedSound
<1> DEFINE new == made + 1
           c == CopiedRef(a, new)
<1>1. /\ made < MaxResolvers /\ made' = new
      /\ owner' = [owner EXCEPT ![new] = a]
      /\ ref' = [ref EXCEPT ![new] = c]
      /\ current' = [current EXCEPT ![a] = new]
      /\ count' = Referenced(p, count, c)
      /\ held' = [held EXCEPT ![p] = new]
      /\ account' = [account EXCEPT ![p] = a]
      /\ pc' = [pc EXCEPT ![p] = "resolve"]
      /\ readers = {}
      /\ UNCHANGED <<sa, canceled, readers>>
  BY <1>0 DEF Upgrade
<1>2. /\ a \in Accounts /\ account[p] \in {None, a}
      /\ pc \in [Policies -> Steps] /\ account \in [Policies -> Names]
      /\ count \in [Ids -> Nat] /\ ref \in [Ids -> Ids]
      /\ current \in [Accounts -> 0..made] /\ owner \in [Ids -> Accounts \cup {None}]
      /\ made \in 0..MaxResolvers
  BY <1>0 DEF TypeInv, RInv, LocalsOK, MapOK, ResolversOK, CountInv, JoinSound
<1>3. /\ new \in Ids /\ new \notin Started /\ Started' = Started \cup {new}
      /\ Started \subseteq Ids
  <2>1. made \in Nat /\ made + 1 <= MaxResolvers /\ MaxResolvers \in Nat
    BY <1>1, <1>2, ResolverBoundsAssumption
  <2>2. Started' = 1..(made + 1)
    BY <1>1 DEF Started
  <2>3. 1..(made + 1) = 1..made \cup {made + 1} /\ 1..made \subseteq 1..MaxResolvers
    BY <2>1
  <2>4. made + 1 \in 1..MaxResolvers /\ made + 1 \notin 1..made
    BY <2>1
  <2> QED
    BY <2>2, <2>3, <2>4 DEF Started, Ids
<1>4. \A b \in Accounts : current[b] # 0 => current[b] \in Started
  BY <1>2, ResolverBoundsAssumption DEF Started
<1>5. /\ c \in Started' /\ c \in Ids
      /\ current[a] = 0 => c = new
      /\ current[a] # 0 => c = ref[current[a]] /\ c \in Started /\ owner[c] = a
  <2>1. current[a] # 0 => owner[current[a]] = a
    BY <1>2 DEF TypeInv, RInv, OwnerSound
  <2> QED
    BY <1>2, <1>3, <1>4, <2>1 DEF CopiedRef, CountInv, RefSound
<1>6. count[c] = Cardinality(Users(a)) /\ (current[a] = 0 => Users(a) = {})
  <2>1. CASE current[a] = 0
    <3>1. Users(a) = {}
      BY <1>2, <2>1 DEF CountInv, CountExact
    <3>2. count[c] = 0
      BY <1>3, <1>5, <2>1 DEF CountInv, RefSound
    <3> QED
      BY <3>1, <3>2, FS_EmptySet
  <2>2. CASE current[a] # 0
    BY <1>2, <1>5, <2>2 DEF CountInv, CountExact
  <2> QED
    BY <2>1, <2>2
<1>7. /\ \A b \in Accounts \ {a} : Users(b)' = Users(b)
      /\ account[p] = a => Users(a)' = Users(a) /\ p \in Users(a)
      /\ account[p] # a => Cardinality(Users(a)') = Cardinality(Users(a)) + 1
  BY <1>1, <1>2, UsersJoined
<1>8. count' = IF account[p] = a THEN count ELSE [count EXCEPT ![c] = @ + 1]
  BY <1>0, <1>1 DEF Referenced
<1>l. LiveIsCurrent'
  <2> SUFFICES ASSUME NEW r \in Started' \ canceled' PROVE current'[owner'[r]] = r
    BY DEF LiveIsCurrent
  <2>1. CASE r = new
    BY <1>1, <1>2, <1>3, <2>1
  <2>2. CASE r # new
    <3>1. r \in Started \ canceled /\ owner'[r] = owner[r] /\ owner[r] \in Accounts
      BY <1>1, <1>2, <1>3, <2>2 DEF TypeInv, GoroutinesOK
    <3>2. current[owner[r]] = r
      BY <3>1 DEF CountInv, LiveIsCurrent
    <3>3. owner[r] # a
      <4>1. r # 0
        BY <3>1 DEF Started
      <4> QED
        BY <1>0, <3>1, <3>2, <4>1 DEF Usable
    <3> QED
      BY <1>1, <1>2, <3>1, <3>2, <3>3
  <2> QED
    BY <2>1, <2>2
<1> HIDE DEF new, c
<1>9. count' \in [Ids -> Nat] /\ \A r \in Ids \ {c} : count'[r] = count[r]
  <2>1. count[c] + 1 \in Nat
    BY <1>2, <1>5
  <2> QED
    BY <1>2, <1>5, <1>8, <2>1
<1>10. CountExact'
  <2> SUFFICES ASSUME NEW b \in Accounts
               PROVE  IF current'[b] = 0 THEN Users(b)' = {}
                      ELSE count'[ref'[current'[b]]] = Cardinality(Users(b)')
    BY DEF CountExact
  <2>1. CASE b = a
    <3>1. current'[a] = new /\ ref'[new] = c /\ new # 0
      BY <1>1, <1>2, <1>3, ResolverBoundsAssumption DEF Ids
    <3>2. count'[c] = Cardinality(Users(a)')
      BY <1>2, <1>5, <1>6, <1>7, <1>8
    <3> QED
      BY <2>1, <3>1, <3>2
  <2>2. CASE b # a /\ current[b] = 0
    BY <1>1, <1>2, <1>7, <2>2 DEF CountInv, CountExact
  <2>3. CASE b # a /\ current[b] # 0
    <3>1. current'[b] = current[b] /\ current[b] \in Started
      BY <1>1, <1>2, <1>4, <2>3
    <3>2. ref'[current[b]] = ref[current[b]] /\ ref[current[b]] \in Started
      BY <1>1, <1>2, <1>3, <3>1 DEF CountInv, RefSound
    <3>3. ref[current[b]] # c
      <4>1. CASE current[a] = 0
        BY <1>3, <1>5, <3>2, <4>1
      <4>2. CASE current[a] # 0
        BY <1>2, <1>5, <2>3, <4>2, CountersDiffer
      <4> QED
        BY <4>1, <4>2
    <3>4. count'[ref[current[b]]] = count[ref[current[b]]]
      BY <1>3, <1>9, <3>2, <3>3
    <3> QED
      BY <1>7, <2>3, <3>1, <3>2, <3>4 DEF CountInv, CountExact
  <2> QED
    BY <2>1, <2>2, <2>3
<1>11. RefSound'
  <2>1. ASSUME NEW r \in Started' PROVE ref'[r] \in Started' /\ owner'[ref'[r]] = owner'[r]
    <3>1. CASE r = new
      <4>1. ref'[r] = c /\ owner'[r] = a
        BY <1>1, <1>2, <1>3, <3>1
      <4>2. owner'[c] = a
        BY <1>1, <1>2, <1>3, <1>5
      <4> QED
        BY <1>5, <4>1, <4>2
    <3>2. CASE r # new
      <4>1. r \in Started /\ ref[r] \in Started /\ owner[ref[r]] = owner[r]
        BY <1>3, <2>1, <3>2 DEF CountInv, RefSound
      <4>2. ref[r] # new /\ ref'[r] = ref[r] /\ owner'[r] = owner[r] /\ owner'[ref[r]] = owner[ref[r]]
        BY <1>1, <1>2, <1>3, <3>2, <4>1
      <4> QED
        BY <1>3, <4>1, <4>2
    <3> QED
      BY <3>1, <3>2
  <2>2. ASSUME NEW r \in Ids \ Started' PROVE ref'[r] = r /\ count'[r] = 0
    BY <1>1, <1>2, <1>3, <1>5, <1>9, <2>2 DEF CountInv, RefSound
  <2> QED
    BY <2>1, <2>2 DEF RefSound
<1>12. JoinSound'
  <2>1. \A q \in Policies : pc[q] # "add"
    BY <1>1 DEF CountInv, JoinSound
  <2> QED
    BY <1>1, <1>2, <2>1 DEF CountInv, JoinSound
<1> QED
  BY <1>9, <1>10, <1>11, <1>l, <1>12 DEF CountInv

(* RemoveReplicatedPolicy gives the reference up.                             *)
LEMMA RemoveCountInv ==
    ASSUME TypeInv, CountInv, NEW p \in Policies, RemoveReplicatedPolicy(p)
    PROVE  CountInv'
<1> USE DEF rootVars, apiVars, locals, mapVars, flagVars, goVars
<1>0. /\ pc \in [Policies -> Steps] /\ account \in [Policies -> Names]
      /\ count \in [Ids -> Nat] /\ held \in [Policies -> 0..MaxResolvers]
      /\ None \notin Accounts /\ Default \notin Accounts
      /\ AfterRemoval(p) \in {"delete", "get"}
  BY AccountsAssumption DEF TypeInv, RInv, LocalsOK, CountInv, AfterRemoval
<1>1. /\ pc[p] \in {"remove", "get"}
      /\ UNCHANGED <<sa, current, owner, ref, made, canceled>>
      /\ \A q \in Policies \ {p} : held'[q] = held[q] /\ (q \in readers => q \in readers')
  BY <1>0 DEF RemoveReplicatedPolicy, NeedsRemoval
<1>2. PICK s \in {"check", "delete", "get"} :
          /\ pc' = [pc EXCEPT ![p] = s]
          /\ \/ account' = account /\ s = "check" /\ ~NoResolverToLeave(p)
             \/ account' = [account EXCEPT ![p] = None]
                /\ s # "check" /\ NoResolverToLeave(p)
  BY <1>0 DEF RemoveReplicatedPolicy
<1>3. LiveIsCurrent' /\ JoinSound'
  BY <1>0, <1>1, <1>2 DEF CountInv, LiveIsCurrent, JoinSound, Started
<1>4. CASE account[p] \notin Accounts
  <2>1. account[p] \in {None, Default} /\ count' = count /\ s # "check"
        /\ account' = [account EXCEPT ![p] = None]
    BY <1>0, <1>2, <1>4 DEF RemoveReplicatedPolicy, Names, NoResolverToLeave
  <2>2. \A b \in Accounts : Users(b)' = Users(b)
    BY <1>0, <1>1, <1>2, <2>1 DEF Users
  <2>3. RefSound' /\ CountExact'
    BY <1>1, <2>1, <2>2 DEF CountInv, RefSound, CountExact, Started
  <2> QED
    BY <1>0, <1>3, <2>1, <2>3 DEF CountInv
<1>5. CASE account[p] \in Accounts
  <2>1. PICK a \in Accounts : a = account[p]
    BY <1>5
  <2>2. /\ \A b \in Accounts \ {a} : Users(b)' = Users(b)
        /\ Cardinality(Users(a)') = Cardinality(Users(a)) - 1
        /\ Cardinality(Users(a)) > 0 /\ Users(a) # {}
    BY <1>1, <1>2, <2>1, UsersLeft
  <2>3. current[a] # 0 /\ count[ref[current[a]]] = Cardinality(Users(a))
    BY <2>2 DEF CountInv, CountExact
  <2> DEFINE c == ref[current[a]]
  <2>4. count' = [count EXCEPT ![c] = @ - 1]
    BY <1>0, <2>1, <2>3 DEF RemoveReplicatedPolicy, Decremented
  <2>5. c \in Started /\ \A r \in Started : r \in Ids
    <3>1. current[a] \in Started
      BY <2>3, ResolverBoundsAssumption DEF TypeInv, RInv, MapOK, Started
    <3> QED
      BY <3>1, ResolverBoundsAssumption
      DEF CountInv, RefSound, TypeInv, RInv, MapOK, Started, Ids
  <2>6. count[c] = Cardinality(Users(a))
    BY <2>3
  <2>b. \A b \in Accounts \ {a} : current[b] # 0 => ref[current[b]] # c /\ ref[current[b]] \in Ids
    <3> SUFFICES ASSUME NEW b \in Accounts \ {a}, current[b] # 0
                 PROVE  ref[current[b]] # c /\ ref[current[b]] \in Ids
      OBVIOUS
    <3>1. current[b] \in Ids
      BY ResolverBoundsAssumption DEF TypeInv, RInv, MapOK, Ids
    <3> QED
      BY <2>3, <3>1, CountersDiffer DEF TypeInv, ResolversOK
  <2>c. \A b \in Accounts : current[b] = 0 \/ b # a \/ (b = a /\ ref[current[b]] = c)
    OBVIOUS
  <2> HIDE DEF c
  <2>7. count' \in [Ids -> Nat] /\ \A r \in Ids \ {c} : count'[r] = count[r]
    <3>1. count[c] - 1 \in Nat
      BY <1>0, <2>2, <2>5, <2>6, UsersFinite
    <3> QED
      BY <1>0, <2>4, <2>5, <3>1
  <2>8. count'[c] = Cardinality(Users(a)')
    BY <1>0, <2>2, <2>4, <2>5, <2>6
  <2>9. RefSound'
    BY <1>1, <2>5, <2>7 DEF CountInv, RefSound, Started
  <2>10. CountExact'
    <3> SUFFICES ASSUME NEW b \in Accounts
                 PROVE  IF current'[b] = 0 THEN Users(b)' = {}
                        ELSE count'[ref'[current'[b]]] = Cardinality(Users(b)')
      BY DEF CountExact
    <3>1. CASE b = a
      BY <1>1, <2>3, <2>8, <2>c, <3>1
    <3>2. CASE b # a /\ current[b] = 0
      BY <1>1, <2>2, <3>2 DEF CountInv, CountExact
    <3>3. CASE b # a /\ current[b] # 0
      <4>1. count'[ref[current[b]]] = count[ref[current[b]]]
        BY <2>7, <2>b, <3>3
      <4> QED
        BY <1>1, <2>2, <3>3, <4>1 DEF CountInv, CountExact
    <3> QED
      BY <3>1, <3>2, <3>3
  <2> QED
    BY <1>3, <2>7, <2>9, <2>10 DEF CountInv
<1> QED
  BY <1>4, <1>5

LEMMA WorkerCountInv == ASSUME TypeInv, CountInv, NEW p \in Policies, Worker(p) PROVE CountInv'
<1> USE DEF rootVars, apiVars, locals, mapVars, flagVars, goVars
<1>0. /\ pc \in [Policies -> Steps] /\ account \in [Policies -> Names]
      /\ held \in [Policies -> 0..MaxResolvers] /\ sa \in [Policies -> Names]
      /\ pc[p] = "get" => sa[p] # None
      /\ pc[p] = "upgrade" => sa[p] \in Accounts
      /\ None \notin Accounts /\ Default \notin Accounts
  BY AccountsAssumption DEF TypeInv, RInv, LocalsOK, NamedSound
<1>1. CASE Reconcile(p) \/ Resolve(p) \/ InitFails(p)
  <2>1. /\ pc[p] # "check"
        /\ \E s : s \notin {"check", "add", "upgrade"} /\ pc' = [pc EXCEPT ![p] = s]
        /\ \A q \in Policies \ {p} : held'[q] = held[q] /\ sa'[q] = sa[q]
    BY <1>0, <1>1 DEF Reconcile, Resolve, InitFails
  <2>2. UNCHANGED <<account, current, owner, ref, count, made, canceled, readers>>
    BY <1>1 DEF Reconcile, Resolve, InitFails
  <2> QED
    BY <1>0, <2>1, <2>2, CountElsewhere
<1>2. CASE WriteReplicated(p) \/ DeleteReplicated(p)
  <2>1. pc[p] # "check" /\ pc' = [pc EXCEPT ![p] = "idle"]
    BY <1>2 DEF WriteReplicated, DeleteReplicated
  <2>2. UNCHANGED <<account, current, owner, ref, count, made, canceled, readers, held, sa>>
    BY <1>2 DEF WriteReplicated, DeleteReplicated
  <2> QED
    BY <1>0, <2>1, <2>2, CountElsewhere
<1>3. CASE RemoveReplicatedPolicy(p)
  BY <1>3, RemoveCountInv
<1>4. CASE LeaveResolver(p)
  <2>1. /\ pc[p] = "check" /\ pc' = [pc EXCEPT ![p] = AfterRemoval(p)]
        /\ AfterRemoval(p) \in {"delete", "get"}
        /\ account' = [account EXCEPT ![p] = None]
        /\ held' = [held EXCEPT ![p] = 0] /\ readers' = readers \ {p}
        /\ UNCHANGED <<current, owner, ref, count, made, canceled, sa>>
    BY <1>4 DEF LeaveResolver, RUnlock, AfterRemoval
  <2>2. \A b \in Accounts : Users(b)' = Users(b)
    BY <1>0, <2>1 DEF Users
  <2>3. CountExact'
    BY <2>1, <2>2 DEF CountInv, CountExact
  <2>4. RefSound' /\ LiveIsCurrent'
    BY <2>1 DEF CountInv, RefSound, LiveIsCurrent, Started
  <2>5. JoinSound'
    BY <1>0, <2>1 DEF CountInv, JoinSound
  <2> QED
    BY <2>1, <2>3, <2>4, <2>5 DEF CountInv
<1>5. CASE GetDefault(p)
  <2>1. /\ pc[p] = "get" /\ pc' = [pc EXCEPT ![p] = "resolve"]
        /\ account[p] \in {None, Default}
        /\ account' = [account EXCEPT ![p] = Default]
        /\ held' = [held EXCEPT ![p] = 0]
        /\ UNCHANGED <<current, owner, ref, count, made, canceled, sa, readers>>
    BY <1>5 DEF GetDefault, Ready, NeedsRemoval
  <2>2. \A b \in Accounts : Users(b)' = Users(b)
    BY <1>0, <2>1 DEF Users
  <2>3. CountExact'
    BY <2>1, <2>2 DEF CountInv, CountExact
  <2>4. RefSound' /\ LiveIsCurrent'
    BY <2>1 DEF CountInv, RefSound, LiveIsCurrent, Started
  <2>5. JoinSound'
    BY <1>0, <2>1 DEF CountInv, JoinSound
  <2> QED
    BY <2>1, <2>3, <2>4, <2>5 DEF CountInv
<1>6. CASE LookUp(p)
  <2>1. /\ pc[p] = "get" /\ account[p] \in {None, sa[p]} /\ sa[p] \in Accounts
        /\ UNCHANGED <<account, current, owner, ref, count, made, canceled, sa>>
    BY <1>0, <1>6 DEF LookUp, Ready, NeedsRemoval, Names
  <2>2. \/ /\ current[sa[p]] # 0
           /\ held' = [held EXCEPT ![p] = current[sa[p]]] /\ readers' = readers \cup {p}
           /\ pc' = [pc EXCEPT ![p] = "add"]
        \/ /\ pc' = [pc EXCEPT ![p] = "upgrade"]
           /\ UNCHANGED <<held, readers>>
    BY <1>6 DEF LookUp, Usable
  <2>3. \A b \in Accounts : Users(b)' = Users(b)
    BY <1>0, <2>1, <2>2 DEF Users
  <2>4. CountExact'
    BY <2>1, <2>3 DEF CountInv, CountExact
  <2>5. RefSound' /\ LiveIsCurrent'
    BY <2>1 DEF CountInv, RefSound, LiveIsCurrent, Started
  <2>6. JoinSound'
    BY <1>0, <2>1, <2>2 DEF CountInv, JoinSound
  <2> QED
    BY <2>1, <2>4, <2>5, <2>6 DEF CountInv
<1>7. CASE AddReference(p)
  <2>1. PICK a \in Accounts : /\ a = sa[p] /\ account[p] \in {None, a}
                              /\ held[p] = current[a] /\ current[a] # 0
    BY <1>7 DEF AddReference, CountInv, JoinSound
  <2>2. /\ pc[p] # "check" /\ count' = Referenced(p, count, ref[current[a]])
        /\ account' = [account EXCEPT ![p] = a] /\ pc' = [pc EXCEPT ![p] = "resolve"]
        /\ readers' = readers \ {p}
        /\ UNCHANGED <<held, sa, current, owner, ref, made, canceled>>
    BY <1>7, <2>1 DEF AddReference, RUnlock
  <2> QED
    BY <2>1, <2>2, JoinCountInv
<1>8. CASE Upgrade(p)
  <2>1. CASE Usable(sa[p])
    <3>1. PICK a \in Accounts : a = sa[p] /\ account[p] \in {None, a}
      BY <1>0, <1>8 DEF Upgrade, CountInv, JoinSound
    <3>2. /\ pc[p] # "check" /\ count' = Referenced(p, count, ref[current[a]])
          /\ account' = [account EXCEPT ![p] = a] /\ pc' = [pc EXCEPT ![p] = "resolve"]
          /\ held' = [held EXCEPT ![p] = current[a]]
          /\ UNCHANGED <<readers, sa, current, owner, ref, made, canceled>>
      BY <1>8, <2>1, <3>1 DEF Upgrade
    <3>3. current[a] # 0 /\ \A q \in Policies \ {p} : held'[q] = held[q]
      BY <1>0, <2>1, <3>1, <3>2 DEF Usable
    <3> QED
      BY <3>1, <3>2, <3>3, JoinCountInv
  <2>2. CASE ~Usable(sa[p])
    BY <1>8, <2>2, RestartCountInv DEF Upgrade
  <2> QED
    BY <2>1, <2>2
<1> QED
  BY <1>1, <1>2, <1>3, <1>4, <1>5, <1>6, <1>7, <1>8 DEF Worker

LEMMA CleanUpCountInv == ASSUME TypeInv, CountInv, NEW r \in Ids, CleanUp(r) PROVE CountInv'
<1> USE DEF rootVars, apiVars, locals, mapVars, flagVars, goVars
<1>1. CASE ~(StillUnused(r) /\ r \notin canceled)
  BY <1>1, CountElsewhere DEF CleanUp
<1>2. CASE StillUnused(r) /\ r \notin canceled
  <2>1. r \in Started
    BY DEF CleanUp, TypeInv, GoroutinesOK
  <2>2. PICK a \in Accounts : a = owner[r] /\ current[a] = r
    BY <1>2, <2>1 DEF TypeInv, GoroutinesOK, CountInv, LiveIsCurrent
  <2>3. /\ readers = {} /\ canceled' = canceled \cup {r}
        /\ current' = [current EXCEPT ![a] = 0]
        /\ UNCHANGED <<pc, sa, held, account, owner, ref, count, made, readers>>
    BY <1>2, <2>2 DEF CleanUp
  <2>4. r # 0 /\ current \in [Accounts -> 0..made]
    BY <2>1 DEF Started, TypeInv, RInv, MapOK
  <2>5. Users(a) = {}
    <3>1. Cardinality(Users(a)) = 0
      BY <1>2, <2>2, <2>4 DEF StillUnused, CountInv, CountExact
    <3> QED
      BY <3>1, UsersFinite, FS_EmptySet
  <2>6. \A b \in Accounts : Users(b)' = Users(b)
    BY <2>3 DEF Users
  <2>7. CountExact'
    BY <2>3, <2>4, <2>5, <2>6 DEF CountInv, CountExact
  <2>8. RefSound'
    BY <2>3 DEF CountInv, RefSound, Started
  <2>9. LiveIsCurrent'
    <3> SUFFICES ASSUME NEW q \in Started \ canceled, q # r PROVE current'[owner[q]] = q
      BY <2>3 DEF LiveIsCurrent, Started
    <3>1. current[owner[q]] = q /\ owner[q] \in Accounts
      BY DEF CountInv, LiveIsCurrent, TypeInv, GoroutinesOK
    <3> QED
      BY <2>2, <2>3, <2>4, <3>1
  <2>10. JoinSound'
    BY <2>3 DEF CountInv, JoinSound
  <2> QED
    BY <2>3, <2>7, <2>8, <2>9, <2>10 DEF CountInv
<1> QED
  BY <1>1, <1>2

LEMMA NextCountInv == TypeInv /\ CountInv /\ [ResolversNext]_vars => CountInv'
<1> SUFFICES ASSUME TypeInv, CountInv, [ResolversNext]_vars PROVE CountInv'
  OBVIOUS
<1> USE DEF rootVars, apiVars, locals, mapVars, flagVars, goVars
<1>1. ASSUME NEW p \in Policies, ChangeRoot(p) \/ CacheSync(p) \/ Deliver(p) PROVE CountInv'
  BY <1>1, CountElsewhere DEF ChangeRoot, CacheSync, Deliver
<1>2. ASSUME NEW a \in Accounts, ChangeAccount(a) PROVE CountInv'
  BY <1>2, CountElsewhere DEF ChangeAccount
<1>3. ASSUME NEW r \in Ids, WatcherStops(r) \/ TokenRefreshFails(r) PROVE CountInv'
  BY <1>3, CountElsewhere DEF WatcherStops, TokenRefreshFails
<1>4. ASSUME NEW x \in Goroutines, OnBackgroundError(x) \/ ListPolicies(x) PROVE CountInv'
  BY <1>4, CountElsewhere DEF OnBackgroundError, ListPolicies
<1>5. CASE UNCHANGED vars
  BY <1>5, CountElsewhere DEF vars
<1> QED
  BY <1>1, <1>2, <1>3, <1>4, <1>5, CleanUpCountInv, WorkerCountInv
  DEF ResolversNext, Background

LEMMA ResolversCountInv == ResolversSpec => []CountInv
BY InitCountInv, NextCountInv, ResolversTypeInv, PTL DEF ResolversSpec

(* Every variable keeps its type, the reference counters never go below zero, *)
(* and resolvers and goroutines only refer to resolvers that were started,    *)
(* whatever the interleaving of reconciles, clean-ups and background errors.  *)
THEOREM ResolversTypeCorrect == ResolversSpec => []ResolversTypeOK
<1>1. TypeInv /\ CountInv => ResolversTypeOK
  BY DEF TypeInv, RInv, LocalsOK, MapOK, NilIsCanceled, HubOK, ResolversOK, GoroutinesOK,
         CountInv, ResolversTypeOK, Steps
<1> QED
  BY <1>1, ResolversTypeInv, ResolversCountInv, PTL

(* referenceCount is the number of replicated policies that rely on the       *)
(* resolver, for any number of policies that join and leave concurrently, and *)
(* across restarts, which hand the counter on: no resolver is stopped under a *)
(* policy that uses it, and none is kept for a count that cannot reach zero.  *)
THEOREM ReferencesCounted == ResolversSpec => []CountExact
<1>1. CountInv => CountExact
  BY DEF CountInv
<1> QED
  BY <1>1, ResolversCountInv, PTL

-----------------------------------------------------------------------------
(* Resolvers without users are stopped.  While such a resolver is in the map   *)
(* and not canceled, the last policy to leave it has still to look at the     *)
(* counter, or a clean-up waits for the lock (UnusedSound); a policy that is   *)
(* not to be reconciled again is with the account its root policy names, or    *)
(* was never stored, or an event of its replica is still to come (Wanted).     *)
Leaving(r) == cleanups[r] > 0 \/ \E p \in Policies : pc[p] = "check" /\ held[p] = r

UnusedSound ==
    \A a \in Accounts : Usable(a) /\ Users(a) = {} => Leaving(current[a])

Unseen(p) == wants[p] = None /\ cache[p] # replica[p] /\ p \in forgotten

Wanted(p) ==
    /\ pc[p] # "idle" => sa[p] = wants[p] \/ p \in queue
    /\ pc[p] \in {"resolve", "write"} => account[p] = sa[p]
    /\ pc[p] \in {"upgrade", "missing", "failed"} => account[p] \in {None, sa[p]}
    /\ pc[p] = "delete" => account[p] = None
    /\ pc[p] = "idle" /\ p \notin queue /\ account[p] \in Accounts =>
          wants[p] = account[p] \/ NeverStored(p) \/ Unseen(p)

CollectInv == UnusedSound /\ \A p \in Policies : Wanted(p)

LEMMA InitCollectInv == ResolversInit => CollectInv
BY AccountsAssumption DEF ResolversInit, CollectInv, UnusedSound, Usable, Wanted

(* The counter of a resolver in the map is 0 exactly when it has no user.      *)
LEMMA UnusedIsZero ==
    ASSUME CountInv, NEW a \in Accounts, current[a] # 0
    PROVE  count[ref[current[a]]] = 0 <=> Users(a) = {}
BY UsersFinite, FS_EmptySet DEF CountInv, CountExact

(* Steps after which no resolver has become unused and no policy has stopped   *)
(* leaving.                                                                  *)
LEMMA UnusedKept ==
    ASSUME UnusedSound,
           \A a \in Accounts : Usable(a)' /\ Users(a)' = {} =>
               /\ Usable(a) /\ Users(a) = {} /\ current'[a] = current[a]
               /\ cleanups'[current[a]] = cleanups[current[a]],
           \A q \in Policies : pc[q] = "check" => pc'[q] = "check" /\ held'[q] = held[q]
    PROVE  UnusedSound'
BY DEF UnusedSound, Leaving

LEMMA UnusedElsewhere ==
    ASSUME UnusedSound, UNCHANGED <<account, current, cleanups>>, canceled \subseteq canceled',
           \A q \in Policies : (pc'[q] = "check" <=> pc[q] = "check")
                               /\ (pc[q] = "check" => held'[q] = held[q])
    PROVE  UnusedSound'
<1>1. \A a \in Accounts : Users(a)' = Users(a) /\ (Usable(a)' => Usable(a))
  BY DEF Users, Usable
<1> QED
  BY <1>1, UnusedKept

LEMMA WorkerUnused ==
    ASSUME TypeInv, CountInv, UnusedSound, NEW p \in Policies, Worker(p) PROVE UnusedSound'
<1> USE DEF rootVars, apiVars, locals, mapVars, flagVars, goVars
<1>0. /\ pc \in [Policies -> Steps] /\ account \in [Policies -> Names]
      /\ held \in [Policies -> 0..MaxResolvers] /\ current \in [Accounts -> 0..made]
      /\ cleanups \in [Ids -> Nat]
      /\ None \notin Accounts /\ Default \notin Accounts
  BY AccountsAssumption DEF TypeInv, RInv, LocalsOK, MapOK, ResolversOK
<1>1. CASE Reconcile(p) \/ LookUp(p) \/ Resolve(p) \/ InitFails(p)
  <2>1. /\ pc[p] # "check"
        /\ \E s : s # "check" /\ pc' = [pc EXCEPT ![p] = s]
        /\ \A q \in Policies \ {p} : held'[q] = held[q]
    BY <1>0, <1>1 DEF Reconcile, LookUp, Ready, Resolve, InitFails
  <2>2. UNCHANGED <<account, current, cleanups, canceled>>
    BY <1>1 DEF Reconcile, LookUp, Resolve, InitFails
  <2> QED
    BY <1>0, <2>1, <2>2, UnusedElsewhere
<1>2. CASE WriteReplicated(p) \/ DeleteReplicated(p)
  <2>1. pc[p] # "check" /\ pc' = [pc EXCEPT ![p] = "idle"]
    BY <1>2 DEF WriteReplicated, DeleteReplicated
  <2>2. UNCHANGED <<account, current, cleanups, canceled, held>>
    BY <1>2 DEF WriteReplicated, DeleteReplicated
  <2> QED
    BY <1>0, <2>1, <2>2, UnusedElsewhere
<1>3. CASE RemoveReplicatedPolicy(p)
  <2>0. pc[p] # "check" /\ UNCHANGED <<current, canceled, cleanups>>
    BY <1>3 DEF RemoveReplicatedPolicy, NeedsRemoval
  <2>1. CASE NoResolverToLeave(p)
    <3>1. /\ account' = [account EXCEPT ![p] = None] /\ held' = held
          /\ pc' = [pc EXCEPT ![p] = AfterRemoval(p)] /\ AfterRemoval(p) # "check"
      BY <1>3, <2>1 DEF RemoveReplicatedPolicy, AfterRemoval
    <3>2. ASSUME NEW a \in Accounts, Usable(a)' PROVE Usable(a) /\ Users(a)' = Users(a)
      <4>1. Usable(a)
        BY <2>0, <3>2 DEF Usable
      <4>2. account[p] # a
        BY <1>0, <2>1, <4>1 DEF NoResolverToLeave, Usable
      <4> QED
        BY <1>0, <2>0, <3>1, <4>1, <4>2 DEF Users
    <3> QED
      BY <1>0, <2>0, <3>1, <3>2, UnusedKept
  <2>2. CASE ~NoResolverToLeave(p)
    <3>1. /\ account' = account /\ account[p] \in Accounts
          /\ held' = [held EXCEPT ![p] = current[account[p]]]
          /\ pc' = [pc EXCEPT ![p] = "check"]
      BY <1>0, <1>3, <2>2 DEF RemoveReplicatedPolicy, NoResolverToLeave, Names
    <3> SUFFICES ASSUME NEW a \in Accounts, Usable(a)', Users(a)' = {}
                 PROVE  Leaving(current[a])'
      BY DEF UnusedSound
    <3>2. CASE a = account[p]
      <4>1. pc'[p] = "check" /\ held'[p] = current'[a]
        BY <1>0, <2>0, <3>1, <3>2
      <4> QED
        BY <4>1 DEF Leaving
    <3>3. CASE a # account[p]
      <4>1. Users(a)' = Users(a) /\ Usable(a)
        BY <1>0, <2>0, <3>1, <3>3 DEF Users, Usable
      <4>2. Leaving(current[a])
        BY <4>1 DEF UnusedSound
      <4> QED
        BY <1>0, <2>0, <3>1, <4>2 DEF Leaving
    <3> QED
      BY <3>2, <3>3
  <2> QED
    BY <2>1, <2>2
<1>4. CASE LeaveResolver(p)
  <2> DEFINE r == held[p]
  <2>1. /\ pc[p] = "check" /\ pc' = [pc EXCEPT ![p] = AfterRemoval(p)]
        /\ AfterRemoval(p) # "check"
        /\ account' = [account EXCEPT ![p] = None]
        /\ held' = [held EXCEPT ![p] = 0]
        /\ cleanups' = IF count[ref[r]] = 0 THEN [cleanups EXCEPT ![r] = @ + 1] ELSE cleanups
        /\ UNCHANGED <<current, canceled>>
    BY <1>4 DEF LeaveResolver, AfterRemoval
  <2> SUFFICES ASSUME NEW a \in Accounts, Usable(a)', Users(a)' = {}
               PROVE  Leaving(current[a])'
    BY DEF UnusedSound
  <2>2. Users(a) = {} /\ Usable(a) /\ current'[a] = current[a]
    BY <1>0, <2>1 DEF Users, Usable
  <2>3. Leaving(current[a]) /\ current[a] # 0 /\ current[a] \in Ids
    BY <1>0, <2>2, ResolverBoundsAssumption DEF UnusedSound, Usable, Ids, TypeInv, RInv, MapOK
  <2>4. cleanups[current[a]] > 0 => cleanups'[current[a]] > 0
    BY <1>0, <2>1, <2>3
  <2>5. CASE r = current[a]
    <3>1. count[ref[r]] = 0
      BY <2>2, <2>3, <2>5, UnusedIsZero
    <3>2. cleanups'[r] > 0
      BY <1>0, <2>1, <2>3, <2>5, <3>1
    <3> QED
      BY <2>2, <2>5, <3>2 DEF Leaving
  <2>6. CASE r # current[a]
    <3> HIDE DEF r
    <3>1. cleanups[current[a]] > 0
          \/ \E q \in Policies : q # p /\ pc[q] = "check" /\ held[q] = current[a]
      BY <2>3, <2>6 DEF Leaving, r
    <3>2. \A q \in Policies : q # p => pc'[q] = pc[q] /\ held'[q] = held[q]
      BY <1>0, <2>1
    <3> QED
      BY <2>2, <2>4, <3>1, <3>2 DEF Leaving
  <2> QED
    BY <2>5, <2>6
<1>5. CASE GetDefault(p)
  <2>1. /\ pc[p] = "get" /\ pc' = [pc EXCEPT ![p] = "resolve"]
        /\ account[p] \in {None, Default}
        /\ account' = [account EXCEPT ![p] = Default]
        /\ held' = [held EXCEPT ![p] = 0]
        /\ UNCHANGED <<current, cleanups, canceled>>
    BY <1>5 DEF GetDefault, Ready, NeedsRemoval
  <2>2. \A a \in Accounts : Users(a)' = Users(a) /\ (Usable(a)' => Usable(a))
    BY <1>0, <2>1 DEF Users, Usable
  <2> QED
    BY <1>0, <2>1, <2>2, UnusedKept
<1>6. CASE AddReference(p) \/ Upgrade(p)
  <2>1. PICK b \in Accounts : b = sa[p] /\ account[p] \in {None, b}
    BY <1>6 DEF AddReference, Upgrade, CountInv, JoinSound, TypeInv, RInv, NamedSound
  <2>2. /\ pc[p] # "check" /\ pc' = [pc EXCEPT ![p] = "resolve"]
        /\ account' = [account EXCEPT ![p] = b]
        /\ \A q \in Policies \ {p} : held'[q] = held[q]
        /\ \A a \in Accounts \ {b} : current'[a] = current[a]
        /\ UNCHANGED <<cleanups, canceled>>
    BY <1>0, <1>6, <2>1 DEF AddReference, Upgrade
  <2>3. /\ \A a \in Accounts \ {b} : Users(a)' = Users(a) /\ (Usable(a)' => Usable(a))
        /\ p \in Users(b)'
    BY <1>0, <2>1, <2>2 DEF Users, Usable
  <2>4. \A q \in Policies : pc[q] = "check" => pc'[q] = "check" /\ held'[q] = held[q]
    BY <1>0, <2>2
  <2> QED
    BY <2>2, <2>3, <2>4, UnusedKept
<1> QED
  BY <1>1, <1>2, <1>3, <1>4, <1>5, <1>6 DEF Worker

LEMMA NextUnused ==
    ASSUME TypeInv, CountInv, UnusedSound, [ResolversNext]_vars PROVE UnusedSound'
<1> USE DEF rootVars, apiVars, locals, mapVars, flagVars, goVars
<1>1. ASSUME NEW p \in Policies, ChangeRoot(p) \/ CacheSync(p) \/ Deliver(p) PROVE UnusedSound'
  BY <1>1, UnusedElsewhere DEF ChangeRoot, CacheSync, Deliver
<1>2. ASSUME NEW a \in Accounts, ChangeAccount(a) PROVE UnusedSound'
  BY <1>2, UnusedElsewhere DEF ChangeAccount
<1>3. ASSUME NEW r \in Ids, WatcherStops(r) \/ TokenRefreshFails(r) PROVE UnusedSound'
  BY <1>3, UnusedElsewhere DEF WatcherStops, TokenRefreshFails
<1>4. ASSUME NEW x \in Goroutines, OnBackgroundError(x) \/ ListPolicies(x) PROVE UnusedSound'
  BY <1>4, UnusedElsewhere DEF OnBackgroundError, ListPolicies
<1>5. CASE UNCHANGED vars
  BY <1>5, UnusedElsewhere DEF vars
<1>6. ASSUME NEW r \in Ids, CleanUp(r) PROVE UnusedSound'
  <2>0. /\ current \in [Accounts -> 0..made] /\ cleanups \in [Ids -> Nat]
        /\ \A a \in Accounts : current[a] # 0 => owner[current[a]] = a /\ current[a] \in Ids
    <3>1. \A a \in Accounts : current[a] # 0 => current[a] \in Ids
      BY ResolverBoundsAssumption DEF TypeInv, RInv, MapOK, Ids
    <3> QED
      BY <3>1 DEF TypeInv, RInv, MapOK, OwnerSound, ResolversOK
  <2>1. /\ cleanups' = [cleanups EXCEPT ![r] = @ - 1]
        /\ \/ /\ canceled' = canceled \cup {r} /\ current' = [current EXCEPT ![owner[r]] = 0]
           \/ /\ UNCHANGED <<canceled, current>>
              /\ count[ref[r]] # 0 \/ r \in canceled
        /\ UNCHANGED <<pc, held, account>>
    BY <1>6 DEF CleanUp, StillUnused
  <2>2. \A a \in Accounts : Users(a)' = Users(a)
    BY <2>1 DEF Users
  <2>3. ASSUME NEW a \in Accounts, Usable(a)', Users(a)' = {}
        PROVE  Usable(a) /\ current'[a] = current[a] /\ current[a] # r
    <3>1. Usable(a) /\ current'[a] = current[a]
      BY <2>0, <2>1, <2>3 DEF Usable
    <3>2. current[a] # r
      BY <2>0, <2>1, <2>2, <2>3, <3>1, UnusedIsZero DEF Usable
    <3> QED
      BY <3>1, <3>2
  <2>4. ASSUME NEW a \in Accounts, Usable(a)', Users(a)' = {}
        PROVE  cleanups'[current[a]] = cleanups[current[a]]
    BY <2>0, <2>1, <2>3, <2>4 DEF Usable
  <2> QED
    BY <2>1, <2>2, <2>3, <2>4, UnusedKept
<1> QED
  BY <1>1, <1>2, <1>3, <1>4, <1>5, <1>6, WorkerUnused DEF ResolversNext, Background

(* Steps that are not about a policy.                                         *)
LEMMA WantedKept ==
    ASSUME NEW q \in Policies, Wanted(q), pc'[q] = pc[q], sa'[q] = sa[q],
           account'[q] = account[q], wants'[q] = wants[q] \/ q \in queue',
           \/ cache'[q] = cache[q] /\ replica'[q] = replica[q]
           \/ q \in queue'
           \/ q \notin forgotten /\ replica'[q] = replica[q],
           q \in queue => q \in queue', q \in forgotten => q \in forgotten'
    PROVE  Wanted(q)'
BY DEF Wanted, NeverStored, Unseen

LEMMA WorkerWanted ==
    ASSUME TypeInv, CountInv, NEW p \in Policies, Wanted(p), Worker(p) PROVE Wanted(p)'
<1> USE DEF rootVars, apiVars, locals, mapVars, flagVars, goVars
<1>0. /\ pc \in [Policies -> Steps] /\ account \in [Policies -> Names]
      /\ sa \in [Policies -> Names] /\ None \notin Accounts /\ Default \notin Accounts
      /\ replica \in [Policies -> Names] /\ seen \in [Policies -> Names]
  BY AccountsAssumption DEF TypeInv, RInv, LocalsOK, HubOK
<1>1. CASE Reconcile(p)
  <2>1. /\ sa'[p] = wants[p] /\ seen'[p] = GetReplicated(p)
        /\ pc'[p] \in {"get", "remove", "idle"}
        /\ pc'[p] = "idle" => wants[p] = None /\ seen'[p] = None /\ p \in forgotten'
        /\ UNCHANGED <<account, wants, cache, replica>>
    BY <1>0, <1>1 DEF Reconcile
  <2>2. pc'[p] = "idle" => NeverStored(p)' \/ Unseen(p)'
    BY <2>1 DEF GetReplicated, NeverStored, Unseen
  <2> QED
    BY <2>1, <2>2 DEF Wanted
<1>2. CASE RemoveReplicatedPolicy(p) \/ LeaveResolver(p)
  <2>1. /\ pc[p] # "idle"
        /\ pc'[p] \in {"check", "get"} \/ (pc'[p] = "delete" /\ account'[p] = None)
        /\ UNCHANGED <<sa, wants, queue>>
    BY <1>0, <1>2 DEF RemoveReplicatedPolicy, NeedsRemoval, LeaveResolver, AfterRemoval
  <2> QED
    BY <2>1 DEF Wanted
<1>3. CASE GetDefault(p) \/ AddReference(p) \/ Upgrade(p)
  <2>1. /\ pc[p] # "idle" /\ pc'[p] = "resolve" /\ account'[p] = sa[p]
        /\ UNCHANGED <<sa, wants, queue>>
    BY <1>0, <1>3 DEF GetDefault, Ready, AddReference, Upgrade
  <2> QED
    BY <2>1 DEF Wanted
<1>4. CASE LookUp(p)
  <2>1. /\ pc[p] = "get" /\ pc'[p] \in {"add", "upgrade"} /\ account[p] \in {None, sa[p]}
        /\ UNCHANGED <<sa, wants, queue, account>>
    BY <1>0, <1>4 DEF LookUp, Ready, NeedsRemoval
  <2> QED
    BY <2>1 DEF Wanted
<1>5. CASE InitFails(p)
  <2>1. /\ pc[p] = "upgrade" /\ pc'[p] \in {"missing", "failed"}
        /\ UNCHANGED <<sa, wants, queue, account>>
    BY <1>0, <1>5 DEF InitFails
  <2> QED
    BY <2>1 DEF Wanted
<1>6. CASE Resolve(p)
  <2>1. /\ pc[p] = "resolve"
        /\ pc'[p] \in {"write", "failed"} \/ (pc'[p] = "idle" /\ p \in queue')
        /\ p \in queue => p \in queue'
        /\ UNCHANGED <<sa, wants, account>>
    BY <1>0, <1>6 DEF Resolve
  <2> QED
    BY <2>1 DEF Wanted
<1>7. CASE WriteReplicated(p)
  <2>1. /\ pc[p] \in {"write", "missing", "failed"} /\ pc'[p] = "idle"
        /\ p \in queue => p \in queue'
        /\ UNCHANGED <<sa, wants, account>>
    BY <1>0, <1>7 DEF WriteReplicated
  <2> QED
    BY <1>0, <2>1 DEF Wanted
<1>8. CASE DeleteReplicated(p)
  <2>1. pc[p] = "delete" /\ pc'[p] = "idle" /\ UNCHANGED <<sa, wants, account>>
    BY <1>0, <1>8 DEF DeleteReplicated
  <2> QED
    BY <1>0, <2>1 DEF Wanted
<1> QED
  BY <1>1, <1>2, <1>3, <1>4, <1>5, <1>6, <1>7, <1>8 DEF Worker

(* What a reconcile of another policy leaves alone.                            *)
LEMMA OtherPolicies ==
    ASSUME TypeInv, NEW p \in Policies, Worker(p), NEW q \in Policies, q # p
    PROVE  /\ pc'[q] = pc[q] /\ sa'[q] = sa[q] /\ account'[q] = account[q]
           /\ held'[q] = held[q] /\ served'[q] = served[q]
           /\ wants' = wants /\ cache' = cache /\ replica'[q] = replica[q]
           /\ q \in queue' <=> q \in queue
           /\ q \in forgotten' <=> q \in forgotten
           /\ q \in readers' <=> q \in readers
           /\ q \in missed' <=> q \in missed
           /\ UNCHANGED <<sending, failing, listing, canceled>>
<1> USE DEF rootVars, apiVars, locals, mapVars, flagVars, goVars
<1>0. /\ pc \in [Policies -> Steps] /\ account \in [Policies -> Names]
      /\ sa \in [Policies -> Names] /\ replica \in [Policies -> Names]
      /\ held \in [Policies -> 0..made] /\ served \in [Policies -> 0..made]
  BY DEF TypeInv, RInv, LocalsOK, HubOK, ResolversOK
<1>1. CASE Reconcile(p) \/ RemoveReplicatedPolicy(p) \/ LeaveResolver(p)
  BY <1>0, <1>1 DEF Reconcile, RemoveReplicatedPolicy, LeaveResolver, RUnlock
<1>2. CASE GetDefault(p) \/ LookUp(p) \/ AddReference(p)
  BY <1>0, <1>2 DEF GetDefault, LookUp, AddReference, RUnlock
<1>3. CASE Upgrade(p)
  BY <1>0, <1>3 DEF Upgrade
<1>4. CASE InitFails(p) \/ Resolve(p)
  BY <1>0, <1>4 DEF InitFails, Resolve
<1>5. CASE WriteReplicated(p)
  BY <1>0, <1>5 DEF WriteReplicated
<1>6. CASE DeleteReplicated(p)
  BY <1>0, <1>6 DEF DeleteReplicated
<1> QED
  BY <1>1, <1>2, <1>3, <1>4, <1>5, <1>6 DEF Worker

LEMMA NextWanted ==
    ASSUME TypeInv, CountInv, \A q \in Policies : Wanted(q), [ResolversNext]_vars
    PROVE  \A q \in Policies : Wanted(q)'
<1> USE DEF rootVars, apiVars, locals, mapVars, flagVars, goVars
<1> TAKE q \in Policies
<1>0. /\ wants \in [Policies -> Names] /\ cache \in [Policies -> Names]
  BY DEF TypeInv, RInv, LocalsOK, HubOK
<1>1. ASSUME NEW p \in Policies, ChangeRoot(p) PROVE Wanted(q)'
  BY <1>0, <1>1, WantedKept DEF ChangeRoot
<1>2. ASSUME NEW p \in Policies, CacheSync(p) PROVE Wanted(q)'
  BY <1>0, <1>2, WantedKept DEF CacheSync
<1>3. ASSUME NEW p \in Policies, Deliver(p) PROVE Wanted(q)'
  BY <1>3, WantedKept DEF Deliver
<1>4. ASSUME NEW p \in Policies, Worker(p) PROVE Wanted(q)'
  BY <1>4, WorkerWanted, OtherPolicies, WantedKept
<1>5. ASSUME NEW a \in Accounts, ChangeAccount(a) PROVE Wanted(q)'
  BY <1>5, WantedKept DEF ChangeAccount
<1>6. ASSUME NEW r \in Ids, CleanUp(r) \/ WatcherStops(r) \/ TokenRefreshFails(r)
      PROVE  Wanted(q)'
  BY <1>6, WantedKept DEF CleanUp, WatcherStops, TokenRefreshFails
<1>7. ASSUME NEW x \in Goroutines, OnBackgroundError(x) \/ ListPolicies(x) PROVE Wanted(q)'
  BY <1>7, WantedKept DEF OnBackgroundError, ListPolicies
<1>8. CASE UNCHANGED vars
  BY <1>8, WantedKept DEF vars
<1> QED
  BY <1>1, <1>2, <1>3, <1>4, <1>5, <1>6, <1>7, <1>8 DEF ResolversNext, Background

LEMMA NextCollectInv == TypeInv /\ CountInv /\ CollectInv /\ [ResolversNext]_vars => CollectInv'
BY NextUnused, NextWanted DEF CollectInv

LEMMA ResolversCollectInv == ResolversSpec => []CollectInv
BY InitCollectInv, NextCollectInv, ResolversTypeInv, ResolversCountInv, PTL DEF ResolversSpec

(* No resolver is leaked: when everything has come to rest, one that still    *)
(* runs has a user whose root policy names its account, or whose replica was  *)
(* never stored, however policies joined, left and restarted it.              *)
THEOREM ResolversCollected == ResolversSpec => []CollectedUnlessNeverStored
<1>1. TypeInv /\ CountInv /\ CollectInv => CollectedUnlessNeverStored
  <2> SUFFICES ASSUME TypeInv, CountInv, CollectInv, AtRest, NEW a \in Accounts, Usable(a)
               PROVE  \E p \in Users(a) : wants[p] = a \/ NeverStored(p)
    BY DEF CollectedUnlessNeverStored
  <2>1. current[a] \in Ids
    BY ResolverBoundsAssumption DEF TypeInv, RInv, MapOK, Usable, Ids
  <2>2. ~Leaving(current[a])
    BY <2>1 DEF AtRest, Leaving
  <2>3. PICK p \in Users(a) : TRUE
    BY <2>2 DEF CollectInv, UnusedSound
  <2>4. p \in Policies /\ account[p] = a
    BY DEF Users
  <2>5. wants[p] = a \/ NeverStored(p)
    BY <2>4 DEF CollectInv, Wanted, AtRest, Unseen
  <2> QED
    BY <2>5
<1> QED
  BY <1>1, ResolversTypeInv, ResolversCountInv, ResolversCollectInv, PTL

-----------------------------------------------------------------------------
(* Policies are told of failed resolvers.  A policy that relies on a canceled   *)
(* resolver is queued, or about to be, or was missed, or a goroutine of        *)
(* onBackgroundError has yet to list the policies of the account (Warned).    *)
(* While a policy holds the read lock, that goroutine cannot have listed       *)
(* them: its reference is added in time to be found (the first conjunct of     *)
(* Served).                                                                  *)
Pending(a) == \E x \in failing \cup listing : owner[x[1]] = a

Warned(p, r) ==
    /\ owner[r] = account[p]
    /\ r \in canceled => p \in missed \cup sending \cup queue \/ Pending(owner[r])

Served(p) ==
    /\ pc[p] = "add" /\ held[p] \in canceled => \E x \in failing : owner[x[1]] = sa[p]
    /\ pc[p] = "resolve" /\ held[p] # 0 => Warned(p, held[p])
    /\ pc[p] = "write" /\ served[p] # 0 => Warned(p, served[p])
    /\ pc[p] = "idle" /\ p \notin queue /\ wants[p] \in Accounts /\ served[p] # 0 =>
          account[p] = wants[p] /\ Warned(p, served[p])

ServedInv == \A p \in Policies : Served(p)

LEMMA InitServedInv == ResolversInit => ServedInv
BY DEF ResolversInit, ServedInv, Served

(* Steps that change nothing for a policy but what it is to be told.           *)
LEMMA ServedKept ==
    ASSUME TypeInv, NEW q \in Policies, Served(q),
           pc'[q] = pc[q], sa'[q] = sa[q], account'[q] = account[q],
           held'[q] = held[q], served'[q] = served[q],
           wants'[q] = wants[q] \/ q \in queue',
           q \in missed \cup sending \cup queue => q \in missed' \cup sending' \cup queue',
           q \in queue => q \in queue',
           \A r \in Started : owner'[r] = owner[r],
           canceled' = canceled, failing \subseteq failing', listing' = listing
    PROVE  Served(q)'
<1>0. held[q] \in 0..made /\ served[q] \in 0..made /\ made \in Nat
  BY ResolverBoundsAssumption DEF TypeInv, ResolversOK, RInv, MapOK
<1>1. /\ held[q] # 0 => held[q] \in Started
      /\ served[q] # 0 => served[q] \in Started
  BY <1>0 DEF Started
<1>2. \A x \in failing \cup listing : x[1] \in Started /\ owner'[x[1]] = owner[x[1]]
  BY DEF TypeInv, GoroutinesOK
<1>3. ASSUME NEW r \in Started, Warned(q, r) PROVE Warned(q, r)'
  BY <1>2, <1>3 DEF Warned, Pending
<1>4. pc[q] = "add" /\ held[q] \in canceled => \E x \in failing' : owner'[x[1]] = sa'[q]
  BY <1>2 DEF Served
<1>5. pc[q] = "resolve" /\ held[q] # 0 => Warned(q, held[q])'
  BY <1>1, <1>3 DEF Served, Warned, Pending
<1>6. pc[q] = "write" /\ served[q] # 0 => Warned(q, served[q])'
  BY <1>1, <1>3 DEF Served, Warned, Pending
<1>7. pc[q] = "idle" /\ q \notin queue' /\ wants'[q] \in Accounts /\ served[q] # 0 =>
          account[q] = wants[q] /\ Warned(q, served[q])'
  BY <1>1, <1>3 DEF Served, Warned, Pending
<1> QED
  BY <1>4, <1>5, <1>6, <1>7 DEF Served

LEMMA WorkerServed ==
    ASSUME TypeInv, CountInv, CollectInv, NEW p \in Policies, Served(p), Worker(p)
    PROVE  Served(p)'
<1> USE DEF rootVars, apiVars, locals, mapVars, flagVars, goVars
<1>0. /\ pc \in [Policies -> Steps] /\ account \in [Policies -> Names]
      /\ sa \in [Policies -> Names] /\ None \notin Accounts /\ Default \notin Accounts
      /\ held \in [Policies -> 0..made] /\ served \in [Policies -> 0..made]
      /\ current \in [Accounts -> 0..made] /\ owner \in [Ids -> Accounts \cup {None}]
      /\ \A a \in Accounts : current[a] # 0 => owner[current[a]] = a
  BY AccountsAssumption DEF TypeInv, RInv, LocalsOK, MapOK, OwnerSound, ResolversOK
<1>1. CASE Reconcile(p)
  <2>1. \/ pc'[p] \in {"get", "remove"}
        \/ pc'[p] = "idle" /\ wants'[p] = None
    BY <1>0, <1>1 DEF Reconcile
  <2> QED
    BY <1>0, <2>1 DEF Served
<1>2. CASE RemoveReplicatedPolicy(p) \/ LeaveResolver(p)
  <2>1. pc'[p] \in {"check", "get", "delete"}
    BY <1>0, <1>2 DEF RemoveReplicatedPolicy, LeaveResolver, AfterRemoval
  <2> QED
    BY <2>1 DEF Served
<1>3. CASE GetDefault(p)
  <2>1. pc'[p] = "resolve" /\ held'[p] = 0
    BY <1>0, <1>3 DEF GetDefault
  <2> QED
    BY <2>1 DEF Served
<1>4. CASE LookUp(p)
  <2>1. \/ pc'[p] = "upgrade"
        \/ pc'[p] = "add" /\ held'[p] \notin canceled'
    BY <1>0, <1>4 DEF LookUp, Usable
  <2> QED
    BY <2>1 DEF Served
<1>5. CASE AddReference(p)
  <2>1. PICK a \in Accounts : a = sa[p] /\ held[p] = current[a] /\ held[p] # 0
    BY <1>5 DEF AddReference, CountInv, JoinSound
  <2>2. /\ pc[p] = "add" /\ pc'[p] = "resolve" /\ account'[p] = a
        /\ UNCHANGED <<held, owner, canceled, failing, listing>>
    BY <1>0, <1>5, <2>1 DEF AddReference
  <2>3. held[p] \in canceled => Pending(a)
    BY <2>1, <2>2 DEF Served, Pending
  <2>4. Warned(p, held[p])'
    BY <1>0, <2>1, <2>2, <2>3 DEF Warned, Pending
  <2> QED
    BY <2>2, <2>4 DEF Served
<1>6. CASE Upgrade(p)
  <2>0. PICK a \in Accounts : a = sa[p]
    BY <1>6 DEF Upgrade, TypeInv, RInv, NamedSound
  <2>1. pc'[p] = "resolve" /\ account'[p] = a /\ canceled' = canceled
    BY <1>0, <1>6, <2>0 DEF Upgrade
  <2>2. owner'[held'[p]] = a /\ held'[p] \notin canceled
    <3>1. CASE Usable(a)
      BY <1>0, <1>6, <2>0, <3>1 DEF Upgrade, Usable
    <3>2. CASE ~Usable(a)
      <4>1. /\ made < MaxResolvers /\ owner' = [owner EXCEPT ![made + 1] = a]
            /\ held'[p] = made + 1
        BY <1>0, <1>6, <2>0, <3>2 DEF Upgrade
      <4>2. made + 1 \in Ids /\ made + 1 \notin Started
        BY <4>1, ResolverBoundsAssumption DEF TypeInv, RInv, MapOK, Ids, Started
      <4> QED
        BY <1>0, <4>1, <4>2 DEF TypeInv, GoroutinesOK
    <3> QED
      BY <3>1, <3>2
  <2> QED
    BY <2>1, <2>2 DEF Served, Warned
<1>7. CASE InitFails(p)
  <2>1. pc'[p] \in {"missing", "failed"}
    BY <1>0, <1>7 DEF InitFails
  <2> QED
    BY <2>1 DEF Served
<1>8. CASE Resolve(p)
  <2>1. /\ pc[p] = "resolve"
        /\ \/ pc'[p] = "write" /\ served'[p] = held[p] /\ queue' = queue
           \/ pc'[p] = "failed"
           \/ pc'[p] = "idle" /\ p \in queue'
        /\ UNCHANGED <<owner, account, canceled, failing, listing, missed, sending>>
    BY <1>0, <1>8 DEF Resolve
  <2>2. pc'[p] = "write" /\ served'[p] # 0 => Warned(p, served[p])'
    BY <2>1 DEF Served, Warned, Pending
  <2> QED
    BY <2>1, <2>2 DEF Served
<1>9. CASE WriteReplicated(p)
  <2>1. /\ pc[p] \in {"write", "missing", "failed"} /\ pc'[p] = "idle"
        /\ \/ served'[p] = 0
           \/ pc[p] = "write" /\ served' = served
        /\ p \in queue => p \in queue'
        /\ UNCHANGED <<owner, account, wants, sa, canceled, failing, listing, missed, sending>>
    BY <1>0, <1>9 DEF WriteReplicated
  <2>2. CASE served'[p] = 0
    BY <2>1, <2>2 DEF Served
  <2>3. CASE pc[p] = "write" /\ served' = served
    <3>1. p \notin queue' => account[p] = wants[p]
      BY <2>1, <2>3 DEF CollectInv, Wanted
    <3>2. served[p] # 0 => Warned(p, served[p])'
      BY <2>1, <2>3 DEF Served, Warned, Pending
    <3> QED
      BY <2>1, <2>3, <3>1, <3>2 DEF Served
  <2> QED
    BY <2>1, <2>2, <2>3
<1>10. CASE DeleteReplicated(p)
  <2>1. pc'[p] = "idle" /\ served'[p] = 0
    BY <1>0, <1>10 DEF DeleteReplicated
  <2> QED
    BY <2>1 DEF Served
<1> QED
  BY <1>1, <1>2, <1>3, <1>4, <1>5, <1>6, <1>7, <1>8, <1>9, <1>10 DEF Worker

LEMMA NextServed ==
    ASSUME TypeInv, CountInv, CollectInv, ServedInv, [ResolversNext]_vars,
           NEW q \in Policies
    PROVE  Served(q)'
<1> USE DEF rootVars, apiVars, locals, mapVars, flagVars, goVars
<1>0. /\ Served(q) /\ wants \in [Policies -> Names]
      /\ held[q] # 0 => held[q] \in Started /\ owner[held[q]] \in Accounts
      /\ served[q] # 0 => served[q] \in Started /\ owner[served[q]] \in Accounts
  <2>1. held[q] \in 0..made /\ served[q] \in 0..made /\ made \in Nat
    BY ResolverBoundsAssumption DEF TypeInv, ResolversOK, RInv, MapOK
  <2>2. /\ held[q] # 0 => held[q] \in Started
        /\ served[q] # 0 => served[q] \in Started
    BY <2>1 DEF Started
  <2> QED
    BY <2>2 DEF ServedInv, TypeInv, GoroutinesOK, RInv, LocalsOK
<1>1. ASSUME NEW p \in Policies, ChangeRoot(p) \/ CacheSync(p) \/ Deliver(p) PROVE Served(q)'
  BY <1>0, <1>1, ServedKept DEF ChangeRoot, CacheSync, Deliver
<1>2. ASSUME NEW a \in Accounts, ChangeAccount(a) PROVE Served(q)'
  BY <1>0, <1>2, ServedKept DEF ChangeAccount
<1>3. ASSUME NEW p \in Policies, Worker(p) PROVE Served(q)'
  <2>1. CASE q = p
    BY <1>0, <1>3, <2>1, WorkerServed
  <2>2. CASE q # p
    <3>1. \A r \in Started : owner'[r] = owner[r]
      <4>1. owner' = owner \/ \E a : owner' = [owner EXCEPT ![made + 1] = a]
        BY <1>3 DEF Worker, Reconcile, RemoveReplicatedPolicy, LeaveResolver, GetDefault,
                    LookUp, AddReference, Upgrade, InitFails, Resolve, WriteReplicated,
                    DeleteReplicated
      <4>2. made + 1 \notin Started /\ owner \in [Ids -> Accounts \cup {None}] /\ Started \subseteq Ids
        BY ResolverBoundsAssumption DEF TypeInv, RInv, MapOK, Started, Ids
      <4> QED
        BY <4>1, <4>2
    <3> QED
      BY <1>0, <1>3, <2>2, <3>1, OtherPolicies, ServedKept
  <2> QED
    BY <2>1, <2>2
<1>4. ASSUME NEW r \in Ids, TokenRefreshFails(r) PROVE Served(q)'
  BY <1>0, <1>4, ServedKept DEF TokenRefreshFails
<1>5. ASSUME NEW r \in Ids, WatcherStops(r) PROVE Served(q)'
  <2>1. /\ canceled' = canceled \cup {r} /\ failing' = failing \cup {<<r, "watcher">>}
        /\ UNCHANGED <<pc, held, served, sa, account, wants, queue, missed, sending, listing,
                       owner>>
    BY <1>5 DEF WatcherStops
  <2>2. <<r, "watcher">> \in failing' /\ <<r, "watcher">>[1] = r
    BY <2>1
  <2>3. pc[q] = "add" => owner[held[q]] = sa[q]
    BY DEF CountInv, JoinSound, TypeInv, RInv, OwnerSound
  <2>4. pc[q] = "add" /\ held[q] \in canceled' => \E x \in failing' : owner[x[1]] = sa[q]
    BY <1>0, <2>1, <2>2, <2>3 DEF Served
  <2>5. Warned(q, held[q]) => Warned(q, held[q])'
    BY <2>1, <2>2 DEF Warned, Pending
  <2>6. Warned(q, served[q]) => Warned(q, served[q])'
    BY <2>1, <2>2 DEF Warned, Pending
  <2> QED
    BY <1>0, <2>1, <2>4, <2>5, <2>6 DEF Served
<1>6. ASSUME NEW r \in Ids, CleanUp(r) PROVE Served(q)'
  <2>1. CASE ~(StillUnused(r) /\ r \notin canceled)
    BY <1>0, <1>6, <2>1, ServedKept DEF CleanUp
  <2>2. CASE StillUnused(r) /\ r \notin canceled
    <3>1. /\ canceled' = canceled \cup {r} /\ readers = {}
          /\ UNCHANGED <<pc, held, served, sa, account, wants, queue, missed, sending, failing,
                         listing, owner>>
      BY <1>6, <2>2 DEF CleanUp
    <3>2. r \in Started /\ owner[r] \in Accounts /\ current[owner[r]] = r /\ r # 0
      BY <1>6, <2>2
      DEF CleanUp, TypeInv, GoroutinesOK, CountInv, LiveIsCurrent, Started
    <3>3. Users(owner[r]) = {}
      BY <2>2, <3>2, UnusedIsZero DEF StillUnused
    <3>4. account[q] = owner[r] => pc[q] = "check"
      BY <3>3 DEF Users
    <3>5. pc[q] # "add"
      BY <3>1 DEF CountInv, JoinSound
    <3>6. pc[q] # "check" /\ Warned(q, held[q]) => Warned(q, held[q])'
      BY <3>1, <3>4 DEF Warned, Pending
    <3>7. pc[q] # "check" /\ Warned(q, served[q]) => Warned(q, served[q])'
      BY <3>1, <3>4 DEF Warned, Pending
    <3> QED
      BY <1>0, <3>1, <3>5, <3>6, <3>7 DEF Served
  <2> QED
    BY <2>1, <2>2
<1>7. ASSUME NEW x \in Goroutines, OnBackgroundError(x) PROVE Served(q)'
  <2>0. PICK r : r = current[owner[x[1]]]
    OBVIOUS
  <2>1. /\ x \in failing /\ readers = {}
        /\ canceled' = canceled \cup ({r} \ {0})
        /\ failing' = failing \ {x} /\ listing' = listing \cup {x}
        /\ UNCHANGED <<pc, held, served, sa, account, wants, queue, missed, sending, owner>>
    BY <1>7, <2>0 DEF OnBackgroundError, LockedByWriter
  <2>2. pc[q] # "add"
    BY <2>1 DEF CountInv, JoinSound
  <2>3. r # 0 => owner[r] = owner[x[1]]
    BY <2>0, <2>1 DEF TypeInv, GoroutinesOK, RInv, OwnerSound
  <2>4. \A a : Pending(a) => Pending(a)'
    BY <2>1 DEF Pending
  <2>5. r # 0 => Pending(owner[r])'
    BY <2>1, <2>3 DEF Pending
  <2>6. Warned(q, held[q]) => Warned(q, held[q])'
    BY <2>1, <2>3, <2>4, <2>5 DEF Warned, Pending
  <2>7. Warned(q, served[q]) => Warned(q, served[q])'
    BY <2>1, <2>3, <2>4, <2>5 DEF Warned, Pending
  <2> QED
    BY <1>0, <2>1, <2>2, <2>6, <2>7 DEF Served
<1>8. ASSUME NEW x \in Goroutines, ListPolicies(x) PROVE Served(q)'
  <2>1. /\ listing' = listing \ {x}
        /\ account[q] = owner[x[1]] => q \in sending' \cup missed'
        /\ sending \subseteq sending' /\ missed \subseteq missed'
        /\ UNCHANGED <<pc, held, served, sa, account, wants, queue, failing, canceled, owner>>
    BY <1>8 DEF ListPolicies
  <2>2. Warned(q, held[q]) => Warned(q, held[q])'
    BY <2>1 DEF Warned, Pending
  <2>3. Warned(q, served[q]) => Warned(q, served[q])'
    BY <2>1 DEF Warned, Pending
  <2> QED
    BY <1>0, <2>1, <2>2, <2>3 DEF Served
<1>9. CASE UNCHANGED vars
  BY <1>0, <1>9, ServedKept DEF vars
<1> QED
  BY <1>1, <1>2, <1>3, <1>4, <1>5, <1>6, <1>7, <1>8, <1>9 DEF ResolversNext, Background

LEMMA NextServedInv ==
    TypeInv /\ CountInv /\ CollectInv /\ ServedInv /\ [ResolversNext]_vars => ServedInv'
BY NextServed DEF ServedInv

(* After background errors, restarts and changes of the account, a policy at    *)
(* rest whose templates use an account is watched by the account's running      *)
(* resolver, unless onBackgroundError did not find the policy in the cache:     *)
(* the races of GetResolver, clean-up and onBackgroundError lose no policy.     *)
THEOREM PoliciesServed == ResolversSpec => []ServedUnlessMissed
<1>1. TypeInv /\ CountInv /\ ServedInv => ServedUnlessMissed
  <2> SUFFICES ASSUME TypeInv, CountInv, ServedInv, AtRest, NEW p \in Policies \ missed,
                      served[p] # 0, wants[p] \in Accounts
               PROVE  served[p] = current[wants[p]] /\ served[p] \notin canceled
    BY DEF ServedUnlessMissed
  <2>1. account[p] = wants[p] /\ Warned(p, served[p])
    BY DEF ServedInv, Served, AtRest
  <2>2. served[p] \notin canceled /\ owner[served[p]] = wants[p]
    BY <2>1 DEF Warned, Pending, AtRest
  <2>3. served[p] \in Started
    BY ResolverBoundsAssumption DEF TypeInv, ResolversOK, RInv, MapOK, Started
  <2> QED
    BY <2>2, <2>3 DEF CountInv, LiveIsCurrent
<1> QED
  BY <1>1, InitServedInv, NextServedInv, ResolversTypeInv, ResolversCountInv,
     ResolversCollectInv, PTL DEF ResolversSpec
=============================================================================
