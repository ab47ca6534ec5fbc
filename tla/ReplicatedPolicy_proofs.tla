----------------------- MODULE ReplicatedPolicy_proofs -----------------------
(***************************************************************************)
(* Proofs about the replicated-policy controller, for every set of         *)
(* contents and every value of the bounds.                                 *)
(***************************************************************************)
EXTENDS ReplicatedPolicy, SequenceLemmas, TLAPS

(* What a step may do to the API server's versions: nothing, or add one.    *)
Grows == hist' = hist \/ \E v \in Version : hist' = Append(hist, v)

(* The locals of the reconciler: what it read was there.                    *)
ReadSound ==
    read.exists => read.rv \in 1 .. Len(hist) /\ Exists(hist[read.rv])

(* cleanUpReplicated runs on an object that was read, and once the Delete    *)
(* has been answered, that object is gone.                                  *)
DeleteSound ==
    /\ pc \in {"cleanup", "deleting"} => read.exists
    /\ pc = "deleting" /\ reply \in {"ok", "notfound"} => GoneSince(read.rv)

IInv == TypeOK /\ ReadSound /\ DeleteSound /\ MarkerSound

-----------------------------------------------------------------------------
(* Sequences over a set: a larger set, no element, one more element.        *)
LEMMA SeqLarger ==
    ASSUME NEW S, NEW T, S \subseteq T, NEW s \in Seq(S)
    PROVE  s \in Seq(T)
  OBVIOUS

LEMMA SeqOne ==
    ASSUME NEW S, NEW x \in S
    PROVE  <<x>> \in Seq(S) /\ <<>> \in Seq(S)
  OBVIOUS

LEMMA SeqAppend ==
    ASSUME NEW S, NEW x \in S, NEW s \in Seq(S)
    PROVE  Append(s, x) \in Seq(S)
  OBVIOUS

LEMMA NoObjectType == NoObject \in Version
  BY DEF NoObject, Version

(* The helpers of the queue and of the map return what their types say.     *)
LEMMA HelperTypes ==
    ASSUME TypeOK
    PROVE  /\ Loaded \in Entry
           /\ AddAfter \in {"delayed", "ready"}
           /\ Live \in Version /\ Cached \in Version
           /\ Len(hist) \in Nat \ {0}
           /\ \A c \in Contents \cup {Absent} : NextVersion(c) \in Version
  <1>1. Len(hist) \in Nat \ {0}
    BY DEF TypeOK
  <1>2. Live \in Version /\ Cached \in Version
    BY <1>1 DEF TypeOK, Live, Cached
  <1>3. \A c \in Contents \cup {Absent} : NextVersion(c) \in Version
    BY <1>2 DEF NextVersion, Version
  <1>4. Loaded \in Entry /\ AddAfter \in {"delayed", "ready"}
    BY DEF TypeOK, Loaded, Entry, NoEntry, Empty, AddAfter
  <1> QED BY <1>1, <1>2, <1>3, <1>4

(* Every step leaves the versions alone or adds one.                        *)
LEMMA HistoryGrows ==
    ASSUME TypeOK, [Next]_vars
    PROVE  Grows
  <1> USE NoObjectType DEF Grows, apiVars
  <1>0. \A c \in Contents \cup {Absent} :
           NextVersion(c) \in Version /\ [content |-> c, gen |-> 1] \in Version
    BY HelperTypes DEF Version
  <1>1. CASE UNCHANGED vars
    BY <1>1 DEF vars
  <1>2. CASE Environment
    BY <1>0, <1>2 DEF Environment, ChangeInputs, ChangeManagedCluster, ExternalWrite, Crash
  <1>3. CASE Watching
    BY <1>3 DEF Watching, InformerSync, CreateFunc, DeleteFunc, UpdateFunc, Handle,
                HandleInputs, RefreshManagedCluster, TimerFires
  <1>4. CASE Reconcile
    <2>1. CASE DeleteReplicated
      BY <2>1 DEF DeleteReplicated
    <2>2. CASE CreateReplicated
      BY <1>0, <2>2 DEF CreateReplicated, Appended, NotApplied, TypeOK
    <2>3. CASE UpdateReplicated
      BY <1>0, <2>3 DEF UpdateReplicated, Appended, NotApplied, TypeOK
    <2> QED
      BY <1>4, <2>1, <2>2, <2>3
         DEF Reconcile, GetReplicated, ReconcileError, RecordDeleted, SkipForeign,
             StartCleanUp, RecordDeletion, BuildReplicated, BuildFails,
             CreateReturned, UpdateReturned
  <1>5. CASE AtRest
    BY <1>5 DEF AtRest, vars
  <1> QED BY <1>1, <1>2, <1>3, <1>4, <1>5 DEF Next

(* Growing keeps the versions there are.                                    *)
LEMMA GrowsKeeps ==
    ASSUME TypeOK, Grows
    PROVE  /\ hist' \in Seq(Version)
           /\ Len(hist') \in Nat /\ Len(hist') >= Len(hist)
           /\ \A i \in 1 .. Len(hist) : hist'[i] = hist[i]
           /\ hist' # <<>>
           /\ \A n \in Nat : GoneSince(n) => GoneSince(n)'
  <1>0. hist \in Seq(Version) /\ hist # <<>> /\ Len(hist) \in Nat \ {0}
    BY DEF TypeOK
  <1>1. /\ hist' \in Seq(Version)
        /\ Len(hist') \in Nat /\ Len(hist') >= Len(hist)
        /\ \A i \in 1 .. Len(hist) : hist'[i] = hist[i]
    <2>1. CASE hist' = hist
      BY <1>0, <2>1
    <2>2. ASSUME NEW v \in Version, hist' = Append(hist, v)
          PROVE  <1>1!1 /\ <1>1!2 /\ <1>1!3
      BY <1>0, <2>2
    <2> QED BY <2>1, <2>2 DEF Grows
  <1>2. hist' # <<>>
    BY <1>0, <1>1
  <1>3. \A n \in Nat : GoneSince(n) => GoneSince(n)'
    BY <1>0, <1>1 DEF GoneSince, Exists
  <1> QED BY <1>1, <1>2, <1>3

-----------------------------------------------------------------------------
(* Every behaviour of the controller starts in a state of the right type.   *)
LEMMA TypeInit == ASSUME Init PROVE TypeOK
  <1>1. PICK c \in Contents : hist \in {<<NoObject>>, <<[content |-> c, gen |-> 1]>>}
    BY DEF Init
  <1>2. PICK v \in Version : hist = <<v>>
    BY <1>1, NoObjectType DEF Version
  <1>3. hist \in Seq(Version) /\ hist # <<>> /\ Len(hist) = 1
    BY <1>2
  <1>4. seen \in 1 .. Len(hist)
    BY <1>3 DEF Init
  <1>5. events \in Seq([old : 0 .. Len(hist), new : 1 .. Len(hist)])
    <2>1. [old |-> 0, new |-> Len(hist)] \in [old : 0 .. Len(hist), new : 1 .. Len(hist)]
      BY <1>3
    <2> QED BY <2>1, SeqOne DEF Init, FirstEvents
  <1>6. notify \in BOOLEAN /\ inCluster \in BOOLEAN /\ refresh \in BOOLEAN
    BY DEF Init
  <1>7. /\ read \in [exists : BOOLEAN, stale : BOOLEAN, rv : 0 .. Len(hist)]
        /\ written \in 0 .. Len(hist)
    BY <1>3 DEF Init, NoRead
  <1>8. budget \in [{"changes", "clusters", "writes", "errors", "crashes"} -> Nat]
    BY BoundsAssumption DEF Init
  <1>9. entry \in Entry
    BY DEF Init, Entry, NoEntry
  <1> QED
    BY <1>3, <1>4, <1>5, <1>6, <1>7, <1>8, <1>9 DEF Init, TypeOK

(* What Finish does to the locals and to the queue.                         *)
LEMMA FinishType ==
    ASSUME TypeOK, Grows, NEW q \in {"none", "delayed", "ready"}, Finish(q)
    PROVE  /\ pc' = "idle" /\ queue' \in {"none", "delayed", "ready"}
           /\ read' \in [exists : BOOLEAN, stale : BOOLEAN, rv : 0 .. Len(hist')]
           /\ desired' \in Contents \cup {Absent}
           /\ reply' = "none" /\ written' \in 0 .. Len(hist')
  BY GrowsKeeps DEF Finish, NoRead

(* Each step preserves the types.                                           *)
LEMMA TypeStep == ASSUME TypeOK, [Next]_vars PROVE TypeOK'
  <1>0. /\ hist' \in Seq(Version) /\ hist' # <<>>
        /\ Len(hist') \in Nat /\ Len(hist') >= Len(hist)
    BY HistoryGrows, GrowsKeeps
  <1>h. /\ Loaded \in Entry /\ AddAfter \in {"delayed", "ready"}
        /\ Len(hist) \in Nat \ {0}
    BY HelperTypes
  <1>e. events \in Seq([old : 0 .. Len(hist'), new : 1 .. Len(hist')])
    <2>1. [old : 0 .. Len(hist), new : 1 .. Len(hist)]
            \subseteq [old : 0 .. Len(hist'), new : 1 .. Len(hist')]
      BY <1>0, <1>h
    <2>2. events \in Seq([old : 0 .. Len(hist), new : 1 .. Len(hist)])
      BY DEF TypeOK
    <2> QED BY <2>1, <2>2, SeqLarger, Zenon
  <1>r. /\ seen \in 1 .. Len(hist')
        /\ read \in [exists : BOOLEAN, stale : BOOLEAN, rv : 0 .. Len(hist')]
        /\ written \in 0 .. Len(hist')
    BY <1>0, <1>h DEF TypeOK
  <1>b. ASSUME NEW w \in DOMAIN budget, Spend(w)
        PROVE  budget' \in [{"changes", "clusters", "writes", "errors", "crashes"} -> Nat]
    BY <1>b DEF TypeOK, Spend
  <1> USE <1>0, <1>h, <1>e, <1>r
      DEF TypeOK, apiVars, cacheVars, mapVars, inputVars, workerVars
  <1>1. CASE UNCHANGED vars
    BY <1>1 DEF vars
  <1>2. CASE ChangeInputs
    BY <1>2, <1>b DEF ChangeInputs
  <1>3. CASE ChangeManagedCluster
    BY <1>3, <1>b DEF ChangeManagedCluster
  <1>4. CASE ExternalWrite
    BY <1>4, <1>b DEF ExternalWrite
  <1>5. CASE Crash
    <2>1. events' \in Seq([old : 0 .. Len(hist'), new : 1 .. Len(hist')])
      <3>1. [old |-> 0, new |-> Len(hist)]
               \in [old : 0 .. Len(hist'), new : 1 .. Len(hist')]
        OBVIOUS
      <3> QED BY <1>5, <3>1, SeqOne DEF Crash, FirstEvents
    <2>2. notify' \in BOOLEAN /\ refresh' \in BOOLEAN /\ lost' \in BOOLEAN
      <3>1. notify' \in BOOLEAN
        BY <1>5 DEF Crash
      <3>2. refresh' \in BOOLEAN
        BY <1>5 DEF Crash
      <3>3. lost' \in BOOLEAN
        BY <1>5 DEF Crash
      <3> QED BY <3>1, <3>2, <3>3
    <2>3. read' \in [exists : BOOLEAN, stale : BOOLEAN, rv : 0 .. Len(hist')]
      BY <1>5 DEF Crash, NoRead
    <2>4. entry' \in Entry
      BY <1>5 DEF Crash, NoEntry, Entry
    <2> QED BY <1>5, <1>b, <2>1, <2>2, <2>3, <2>4 DEF Crash
  <1>6. CASE InformerSync
    <2>1. PICK n \in (seen + 1) .. Len(hist) :
             /\ seen' = n
             /\ events' = events \/ events' = Append(events, [old |-> seen, new |-> n])
             /\ lost' = (lost \/ n # seen + 1)
      BY <1>6 DEF InformerSync
    <2>2. n \in 1 .. Len(hist') /\ [old |-> seen, new |-> n]
             \in [old : 0 .. Len(hist'), new : 1 .. Len(hist')]
      BY <2>1
    <2>3. events' \in Seq([old : 0 .. Len(hist'), new : 1 .. Len(hist')])
      <3>1. CASE events' = events
        BY <3>1
      <3>2. CASE events' = Append(events, [old |-> seen, new |-> n])
        BY <1>e, <2>2, <3>2, SeqAppend, Zenon
      <3> QED BY <2>1, <3>1, <3>2
    <2>4. seen' \in 1 .. Len(hist') /\ lost' \in BOOLEAN
      BY <2>1, <2>2
    <2> QED BY <1>6, <2>3, <2>4 DEF InformerSync
  <1>7. CASE CreateFunc \/ DeleteFunc \/ UpdateFunc
    <2>1. PICK e, passes : events # <<>> /\ Handle(e, passes)
      BY <1>7 DEF CreateFunc, DeleteFunc, UpdateFunc
    <2>2. events' \in Seq([old : 0 .. Len(hist'), new : 1 .. Len(hist')])
      BY <2>1 DEF Handle
    <2>3. queue' \in {"none", "delayed", "ready"}
      BY <2>1 DEF Handle, Add
    <2>4. lost' \in BOOLEAN
      BY <2>1 DEF Handle
    <2> QED BY <2>1, <2>2, <2>3, <2>4 DEF Handle
  <1>8. CASE HandleInputs
    <2>1. notify' \in BOOLEAN /\ queue' \in {"none", "delayed", "ready"}
      BY <1>8 DEF HandleInputs, Add
    <2> QED BY <1>8, <2>1 DEF HandleInputs
  <1>9. CASE RefreshManagedCluster
    <2>1. refresh' \in BOOLEAN /\ queue' \in {"none", "delayed", "ready"}
      BY <1>9 DEF RefreshManagedCluster, Add
    <2> QED BY <1>9, <2>1 DEF RefreshManagedCluster
  <1>10. CASE TimerFires
    BY <1>10 DEF TimerFires
  <1>11. CASE GetReplicated
    <2>1. read' \in [exists : BOOLEAN, stale : BOOLEAN, rv : 0 .. Len(hist')]
      BY <1>11 DEF GetReplicated, CachedReplicatedPolicyIsStale, Exists
    <2>2. entry' \in Entry
      BY <1>11 DEF GetReplicated
    <2> QED BY <1>11, <2>1, <2>2 DEF GetReplicated
  <1>12. CASE ReconcileError
    BY <1>12, <1>b, FinishType, HistoryGrows DEF ReconcileError
  <1>13. CASE RecordDeleted
    <2>1. entry' \in Entry
      BY <1>13 DEF RecordDeleted, ClearedEntry, NoEntry, Entry
    <2> QED
      BY <1>13, <2>1, FinishType, HistoryGrows DEF RecordDeleted, RequeueTombstone
  <1>14. CASE SkipForeign
    BY <1>14, FinishType, HistoryGrows DEF SkipForeign
  <1>15. CASE StartCleanUp
    BY <1>15 DEF StartCleanUp
  <1>16. CASE DeleteReplicated
    BY <1>16, <1>b DEF DeleteReplicated
  <1>17. CASE RecordDeletion
    <2>1. entry' \in Entry
      BY <1>17 DEF RecordDeletion, DeletedMarker, Deleted, Entry
    <2> QED
      BY <1>17, <2>1, FinishType, HistoryGrows DEF RecordDeletion, RequeueTombstone
  <1>18. CASE BuildReplicated
    BY <1>18 DEF BuildReplicated
  <1>19. CASE BuildFails
    BY <1>19, FinishType, HistoryGrows DEF BuildFails
  <1>20. CASE CreateReplicated
    <2>1. /\ entry' \in Entry /\ pc' = "creating"
          /\ reply' \in {"none", "ok", "notfound", "exists", "error"}
      BY <1>20 DEF CreateReplicated
    <2>2. written' \in 0 .. Len(hist')
      <3>1. (hist' = hist /\ written' = written)
            \/ (hist' = Append(hist, [content |-> desired, gen |-> 1]) /\ written' = Len(hist) + 1)
        BY <1>20 DEF CreateReplicated, Appended, NotApplied
      <3> QED BY <3>1
    <2>3. budget' \in [{"changes", "clusters", "writes", "errors", "crashes"} -> Nat]
      BY <1>20, <1>b DEF CreateReplicated
    <2> QED BY <1>20, <2>1, <2>2, <2>3 DEF CreateReplicated
  <1>21. CASE CreateReturned
    <2>1. entry' \in Entry
      BY <1>21 DEF CreateReturned, Rv, Empty, Entry
    <2> QED
      BY <1>21, <1>b, <2>1, FinishType, HistoryGrows DEF CreateReturned
  <1>22. CASE UpdateReplicated
    <2>1. reply' \in {"none", "ok", "notfound", "exists", "error"}
      BY <1>22 DEF UpdateReplicated
    <2>2. written' \in 0 .. Len(hist')
      <3>1. CASE written' = read.rv
        BY <3>1
      <3>2. CASE hist' = Append(hist, NextVersion(desired)) /\ written' = Len(hist) + 1
        BY <3>2
      <3>3. CASE UNCHANGED written
        BY <3>3
      <3> QED BY <1>22, <3>1, <3>2, <3>3 DEF UpdateReplicated, Appended, NotApplied
    <2>3. budget' \in [{"changes", "clusters", "writes", "errors", "crashes"} -> Nat]
      BY <1>22, <1>b DEF UpdateReplicated
    <2> QED BY <1>22, <2>1, <2>2, <2>3 DEF UpdateReplicated
  <1>23. CASE UpdateReturned
    <2>1. entry' \in Entry
      BY <1>23 DEF UpdateReturned, Rv, Entry
    <2> QED
      BY <1>23, <1>b, <2>1, FinishType, HistoryGrows DEF UpdateReturned
  <1>24. CASE AtRest
    BY <1>24 DEF AtRest, vars
  <1> QED
    BY <1>1, <1>2, <1>3, <1>4, <1>5, <1>6, <1>7, <1>8, <1>9, <1>10, <1>11, <1>12,
       <1>13, <1>14, <1>15, <1>16, <1>17, <1>18, <1>19, <1>20, <1>21, <1>22, <1>23,
       <1>24
       DEF Next, Environment, Watching, Reconcile

(* In every behaviour of the replicated-policy controller the variables have *)
(* their types: the cache, the pending events and the reconciler's locals    *)
(* only ever refer to versions the API server has produced.                  *)
THEOREM TypeCorrect == Spec => []TypeOK
  BY TypeInit, TypeStep, PTL DEF Spec

-----------------------------------------------------------------------------
(* The invariant behind MarkerSound, action by action.  What was read stays  *)
(* there because versions are only added; the locals change in GetReplicated *)
(* and Finish only.                                                          *)
LEMMA ReadStep ==
    ASSUME TypeOK, ReadSound, [Next]_vars
    PROVE  ReadSound'
  <1>0. /\ Len(hist) \in Nat /\ Len(hist') \in Nat /\ Len(hist') >= Len(hist)
        /\ \A i \in 1 .. Len(hist) : hist'[i] = hist[i]
    BY HistoryGrows, GrowsKeeps DEF TypeOK
  <1>1. CASE UNCHANGED read
    BY <1>0, <1>1 DEF ReadSound, Exists
  <1>2. CASE read' = NoRead
    BY <1>2 DEF ReadSound, NoRead
  <1>3. CASE GetReplicated
    <2>1. CASE read'.exists
      <3>1. read'.rv = seen /\ Exists(hist[seen])
        BY <1>3, <2>1 DEF GetReplicated, Cached
      <3> QED BY <1>0, <3>1 DEF TypeOK, ReadSound, Exists
    <2> QED BY <2>1 DEF ReadSound
  <1>4. GetReplicated \/ read' = NoRead \/ UNCHANGED read
    <2>1. Environment => read' = NoRead \/ UNCHANGED read
      BY DEF Environment, ChangeInputs, ChangeManagedCluster, ExternalWrite, Crash, workerVars
    <2>2. Watching => UNCHANGED read
      BY DEF Watching, InformerSync, CreateFunc, DeleteFunc, UpdateFunc, Handle,
             HandleInputs, RefreshManagedCluster, TimerFires, workerVars
    <2>3. Reconcile => GetReplicated \/ read' = NoRead \/ UNCHANGED read
      BY DEF Reconcile, ReconcileError, RecordDeleted, SkipForeign, StartCleanUp,
             DeleteReplicated, RecordDeletion, BuildReplicated, BuildFails,
             CreateReplicated, CreateReturned, UpdateReplicated, UpdateReturned, Finish
    <2>4. AtRest \/ UNCHANGED vars => UNCHANGED read
      BY DEF AtRest, vars
    <2> QED BY <2>1, <2>2, <2>3, <2>4 DEF Next
  <1> QED BY <1>1, <1>2, <1>3, <1>4

(* The Delete call: either it removes the live version, which is not older   *)
(* than the one read, or there is no live version although the one read was  *)
(* there.                                                                    *)
LEMMA DeleteAnswered ==
    ASSUME TypeOK, ReadSound, DeleteSound, DeleteReplicated, reply' \in {"ok", "notfound"}
    PROVE  GoneSince(read.rv)'
  <1>1. /\ read.exists /\ read.rv \in 1 .. Len(hist) /\ Exists(hist[read.rv])
        /\ read' = read /\ Len(hist) \in Nat
    BY DEF DeleteReplicated, DeleteSound, ReadSound, TypeOK
  <1>2. CASE Exists(Live)
    <2>1. hist' = Append(hist, NoObject)
      BY <1>2 DEF DeleteReplicated
    <2>2. Len(hist') = Len(hist) + 1 /\ hist'[Len(hist) + 1] = NoObject
      BY <2>1 DEF TypeOK
    <2> QED BY <1>1, <2>2 DEF GoneSince, Exists, NoObject
  <1>3. CASE ~Exists(Live)
    <2>1. hist' = hist
      BY <1>3 DEF DeleteReplicated
    <2>2. read.rv # Len(hist)
      BY <1>1, <1>3 DEF Live
    <2> QED BY <1>1, <1>3, <2>1, <2>2 DEF GoneSince, Live, Exists
  <1> QED BY <1>2, <1>3

LEMMA DeleteStep ==
    ASSUME TypeOK, ReadSound, DeleteSound, [Next]_vars
    PROVE  DeleteSound'
  <1>g. \A n \in Nat : GoneSince(n) => GoneSince(n)'
    BY HistoryGrows, GrowsKeeps
  <1>1. CASE UNCHANGED <<pc, read, reply>>
    <2>1. read.rv \in Nat
      BY DEF TypeOK
    <2>2. GoneSince(read.rv) => GoneSince(read.rv)'
      BY <1>g, <1>1, <2>1 DEF GoneSince
    <2> QED BY <1>1, <2>2 DEF DeleteSound
  <1>2. CASE StartCleanUp
    BY <1>2 DEF StartCleanUp, DeleteSound
  <1>3. CASE DeleteReplicated
    <2>1. pc' = "deleting" /\ read'.exists
      BY <1>3 DEF DeleteReplicated, DeleteSound
    <2> QED BY <1>3, <2>1, DeleteAnswered DEF DeleteSound
  <1>4. CASE pc' \notin {"cleanup", "deleting"}
    BY <1>4 DEF DeleteSound
  <1>5. \/ UNCHANGED <<pc, read, reply>> \/ StartCleanUp \/ DeleteReplicated
        \/ pc' \notin {"cleanup", "deleting"}
    <2>1. Environment => UNCHANGED <<pc, read, reply>> \/ pc' = "idle"
      BY DEF Environment, ChangeInputs, ChangeManagedCluster, ExternalWrite, Crash, workerVars
    <2>2. Watching => UNCHANGED <<pc, read, reply>>
      BY DEF Watching, InformerSync, CreateFunc, DeleteFunc, UpdateFunc, Handle,
             HandleInputs, RefreshManagedCluster, TimerFires, workerVars
    <2>3. Reconcile => \/ StartCleanUp \/ DeleteReplicated
                       \/ pc' \in {"idle", "decide", "write", "creating", "updating"}
      BY DEF Reconcile, GetReplicated, ReconcileError, RecordDeleted, SkipForeign,
             RecordDeletion, BuildReplicated, BuildFails, CreateReplicated,
             CreateReturned, UpdateReplicated, UpdateReturned, Finish
    <2>4. AtRest \/ UNCHANGED vars => UNCHANGED <<pc, read, reply>>
      BY DEF AtRest, vars
    <2> QED BY <2>1, <2>2, <2>3, <2>4 DEF Next
  <1> QED BY <1>1, <1>2, <1>3, <1>4, <1>5

(* How a step may change the entry: only RecordDeletion makes a marker.      *)
LEMMA EntryStep ==
    ASSUME [Next]_vars
    PROVE  \/ entry' = entry \/ entry'.kind # "deleted" \/ RecordDeletion
  <1> USE DEF NoEntry, Empty, Loaded
  <1>1. Environment => entry' = entry \/ entry' = NoEntry
    BY DEF Environment, ChangeInputs, ChangeManagedCluster, ExternalWrite, Crash, mapVars
  <1>2. Watching => entry' = entry \/ entry' = Empty
    BY DEF Watching, InformerSync, CreateFunc, DeleteFunc, UpdateFunc, Handle,
           HandleInputs, RefreshManagedCluster, TimerFires, mapVars
  <1>3. Reconcile => \/ RecordDeletion \/ entry' \in {entry, Empty, NoEntry}
                     \/ entry' = Rv(written)
    BY DEF Reconcile, GetReplicated, ReconcileError, RecordDeleted, ClearedEntry, SkipForeign,
           StartCleanUp, DeleteReplicated, BuildReplicated, BuildFails,
           CreateReplicated, CreateReturned, UpdateReplicated, UpdateReturned, mapVars
  <1>4. AtRest \/ UNCHANGED vars => entry' = entry
    BY DEF AtRest, vars
  <1> QED BY <1>1, <1>2, <1>3, <1>4 DEF Next, Rv

LEMMA MarkerStep ==
    ASSUME TypeOK, DeleteSound, MarkerSound, [Next]_vars
    PROVE  MarkerSound'
  <1>g. \A n \in Nat : GoneSince(n) => GoneSince(n)'
    BY HistoryGrows, GrowsKeeps
  <1>1. CASE entry' = entry
    <2>1. entry.rv \in Nat
      BY DEF TypeOK, Entry
    <2>2. GoneSince(entry.rv) => GoneSince(entry.rv)'
      BY <1>g, <1>1, <2>1 DEF GoneSince
    <2> QED BY <1>1, <2>2 DEF MarkerSound
  <1>2. CASE entry'.kind # "deleted"
    BY <1>2 DEF MarkerSound
  <1>3. CASE RecordDeletion /\ entry' # entry
    <2>1. reply \in {"ok", "notfound"} /\ entry' = Deleted(read.rv) /\ pc = "deleting"
      BY <1>3 DEF RecordDeletion, DeletedMarker
    <2>2. GoneSince(read.rv) /\ hist' = hist /\ entry'.rv = read.rv
      BY <1>3, <2>1 DEF DeleteSound, RecordDeletion, apiVars, Deleted
    <2> QED BY <2>2 DEF MarkerSound, GoneSince
  <1> QED BY <1>1, <1>2, <1>3, EntryStep

(* In every behaviour, a "deleted-<rv>" marker of cleanUpReplicated names an *)
(* object that is gone: treating a cache hit on that resourceVersion as a    *)
(* missing object never hides one that still exists.                         *)
THEOREM MarkersAreSound == Spec => []MarkerSound
  <1>1. Init => IInv
    <2>1. ASSUME Init PROVE ReadSound /\ DeleteSound /\ MarkerSound
      BY <2>1 DEF Init, ReadSound, NoRead, DeleteSound, MarkerSound, NoEntry
    <2> QED BY <2>1, TypeInit DEF IInv
  <1>2. IInv /\ [Next]_vars => IInv'
    BY TypeStep, ReadStep, DeleteStep, MarkerStep DEF IInv
  <1>3. IInv => MarkerSound
    BY DEF IInv
  <1> QED BY <1>1, <1>2, <1>3, PTL DEF Spec

-----------------------------------------------------------------------------
(* Without changes of the ManagedCluster, whoever takes the key out of the   *)
(* queue while there is a marker puts it back or replaces the marker.        *)
NoClusterChange == budget["clusters"] = 0

LEMMA ClusterStep ==
    ASSUME TypeOK, NoClusterChange, [Next]_vars
    PROVE  NoClusterChange' /\ inCluster' = inCluster
  <1> USE DEF inputVars, NoClusterChange
  <1>s. ASSUME NEW w \in DOMAIN budget, Spend(w)
        PROVE  budget'["clusters"] = 0 /\ w # "clusters"
    BY <1>s DEF TypeOK, Spend
  <1>t. {"changes", "clusters", "writes", "errors", "crashes"} = DOMAIN budget
    BY DEF TypeOK
  <1>1. CASE Environment
    BY <1>1, <1>s, <1>t
       DEF Environment, ChangeInputs, ChangeManagedCluster, ExternalWrite, Crash
  <1>2. CASE Watching
    BY <1>2 DEF Watching, InformerSync, CreateFunc, DeleteFunc, UpdateFunc, Handle,
                HandleInputs, RefreshManagedCluster, TimerFires
  <1>3. CASE Reconcile
    <2>1. inCluster' = inCluster
      BY <1>3 DEF Reconcile, GetReplicated, ReconcileError, RecordDeleted, SkipForeign,
                  StartCleanUp, DeleteReplicated, RecordDeletion, BuildReplicated,
                  BuildFails, CreateReplicated, CreateReturned, UpdateReplicated,
                  UpdateReturned
    <2>2. UNCHANGED budget \/ Spend("errors")
      BY <1>3 DEF Reconcile, GetReplicated, ReconcileError, RecordDeleted, SkipForeign,
                  StartCleanUp, DeleteReplicated, RecordDeletion, BuildReplicated,
                  BuildFails, CreateReplicated, CreateReturned, UpdateReplicated,
                  UpdateReturned
    <2> QED BY <2>1, <2>2, <1>s, <1>t
  <1>4. CASE AtRest \/ UNCHANGED vars
    BY <1>4 DEF AtRest, vars
  <1> QED BY <1>1, <1>2, <1>3, <1>4 DEF Next

LEMMA TombstoneStep ==
    ASSUME TypeOK, NoClusterChange, TombstoneRevisited, [Next]_vars
    PROVE  TombstoneRevisited'
  <1>c. inCluster' = inCluster
    BY ClusterStep
  <1>a. AddAfter # "none"
    BY HelperTypes
  <1> USE DEF TombstoneRevisited
  <1>1. CASE Environment
    <2>1. UNCHANGED <<pc, queue, entry>> \/ entry' = NoEntry
      BY <1>1 DEF Environment, ChangeInputs, ChangeManagedCluster, ExternalWrite,
                  Crash, mapVars, workerVars
    <2> QED BY <1>c, <2>1 DEF NoEntry
  <1>2. CASE Watching
    <2>1. entry' = entry \/ entry' = Empty
      BY <1>2 DEF Watching, InformerSync, CreateFunc, DeleteFunc, UpdateFunc, Handle,
                  HandleInputs, RefreshManagedCluster, TimerFires, mapVars, Loaded
    <2>2. pc' = pc /\ (queue' = queue \/ queue' = "ready")
      BY <1>2 DEF Watching, InformerSync, CreateFunc, DeleteFunc, UpdateFunc, Handle,
                  HandleInputs, RefreshManagedCluster, TimerFires, workerVars, Add
    <2> QED BY <1>c, <2>1, <2>2 DEF Empty
  <1>3. CASE pc' # "idle"
    BY <1>3
  <1>4. CASE RecordDeleted
    BY <1>4, <1>a, <1>c DEF RecordDeleted, ClearedEntry, NoEntry, RequeueTombstone, Finish
  <1>5. CASE SkipForeign
    BY <1>5, <1>c DEF SkipForeign, NotOurs
  <1>6. CASE CreateReturned
    BY <1>6, <1>a DEF CreateReturned, Finish, Rv, Empty
  <1>7. CASE UpdateReturned
    BY <1>7, <1>a DEF UpdateReturned, Finish, Rv
  <1>8. CASE ReconcileError \/ RecordDeletion \/ BuildFails
    BY <1>8, <1>a DEF ReconcileError, RecordDeletion, BuildFails, RequeueTombstone, Finish
  <1>9. CASE AtRest \/ UNCHANGED vars
    BY <1>9 DEF AtRest, vars
  <1> QED
    BY <1>1, <1>2, <1>3, <1>4, <1>5, <1>6, <1>7, <1>8, <1>9
       DEF Next, Reconcile, GetReplicated, StartCleanUp, DeleteReplicated,
           BuildReplicated, CreateReplicated, UpdateReplicated

(* As long as the ManagedClusters stay as they are, a key that has a         *)
(* "deleted" marker, for which the predicates skip Delete events, is always  *)
(* in the queue or being reconciled: cleanUpReplicated and recordDeleted     *)
(* never leave a marker that nobody comes back to.                           *)
THEOREM TombstonesAreRevisited ==
    ASSUME MaxClusters = 0
    PROVE  Spec => []TombstoneRevisited
  <1> DEFINE TInv == TypeOK /\ NoClusterChange /\ TombstoneRevisited
  <1>1. Init => TInv
    <2>1. ASSUME Init PROVE NoClusterChange /\ TombstoneRevisited
      BY <2>1 DEF Init, NoClusterChange, TombstoneRevisited, NoEntry
    <2> QED BY <2>1, TypeInit
  <1>2. TInv /\ [Next]_vars => TInv'
    BY TypeStep, ClusterStep, TombstoneStep
  <1>3. TInv => TombstoneRevisited
    OBVIOUS
  <1> HIDE DEF TInv
  <1> QED BY <1>1, <1>2, <1>3, PTL DEF Spec


-----------------------------------------------------------------------------
(* Convergence.  A change of the object that a reconcile has not seen is on   *)
(* its way to a predicate that will queue the key, or it is known not to      *)
(* matter.                                                                    *)

(* Version m + 1 differs from version m; the predicates have yet to see it.    *)
Changes(m) == hist[m].content # hist[m + 1].content
Pending(m) == m >= seen \/ [old |-> m, new |-> m + 1] \in ToSet(events)

(* The API server's versions: an update that changes the content changes the   *)
(* generation, and different contents have a change between them.             *)
HistSound ==
    /\ \A m \in 1 .. (Len(hist) - 1) :
         Changes(m) /\ Exists(hist[m]) /\ Exists(hist[m + 1]) => hist[m].gen # hist[m + 1].gen
    /\ \A i \in 1 .. Len(hist) : \A j \in i .. Len(hist) :
         hist[i].content = hist[j].content \/ \E m \in i .. (j - 1) : Changes(m)

(* The map names versions there are.                                          *)
EntrySound == entry.rv <= Len(hist)

(* The reconciler, having read version s.                                     *)
AllPending(s) == \A m \in s .. (Len(hist) - 1) : Changes(m) => Pending(m)
DeletePending == \E e \in ToSet(events) : Exists(Before(e)) /\ ~Exists(After(e))

ReadBased ==
    \E s \in 1 .. seen : /\ AllPending(s)
                         /\ read.exists => s = read.rv
                         /\ ~read.exists /\ ~read.stale => ~Exists(hist[s])

WriteSound ==
    written \in 1 .. Len(hist) /\ hist[written].content = desired /\ AllPending(written)

WorkSound ==
    /\ ReadBased
    /\ pc = "decide" /\ read.exists => Exists(Cached) \/ DeletePending
    /\ pc \in {"write", "creating", "updating"} => desired = want /\ want \in Contents
    /\ pc \in {"creating", "updating"} /\ reply = "ok" => WriteSound

(* Nobody works on the key and nobody has queued it: the object was as it is    *)
(* wanted and every change since will be noticed, or it is not ours for now,    *)
(* or an event that will be noticed is there anyway.                           *)
Based(b) ==
    /\ b \in 1 .. Len(hist) /\ AllPending(b)
    /\ want \in Contents => hist[b].content = want /\ entry.kind # "deleted"
    /\ want \in NotWanted => ~Exists(hist[b])
    /\ entry.kind = "rv" => entry.rv <= b

Foreign ==
    /\ want \in NotWanted /\ (NotOurs \/ refresh)
    /\ entry.kind = "rv" /\ entry.rv > seen => Exists(Cached)

Noticed ==
    \E e \in ToSet(events) :
       \/ entry.kind = "rv" /\ Exists(Before(e)) /\ ~Exists(After(e))
       \/ entry.kind \in {"none", "empty"} /\ ~Exists(Before(e)) /\ Exists(After(e))

QuietSound == Noticed \/ Foreign \/ \E b \in 1 .. Len(hist) : Based(b)

Unattended == ~lost /\ queue = "none" /\ ~notify
AttendedInv == Unattended => IF pc = "idle" THEN QuietSound ELSE WorkSound

ConvergeInv == HistSound /\ EntrySound /\ AttendedInv

(* The versions.                                                              *)
LEMMA HistStep == ASSUME TypeOK, HistSound, [Next]_vars PROVE HistSound'
  <1> DEFINE New(v) == /\ v \in Version /\ hist' = Append(hist, v)
                       /\ v.content # Live.content /\ Exists(Live) /\ Exists(v) => v.gen # Live.gen
  <1>0. /\ hist \in Seq(Version) /\ Len(hist) \in Nat \ {0} /\ Live \in Version
        /\ NoObject \in Version /\ ~Exists(NoObject)
    BY HelperTypes, NoObjectType DEF TypeOK, Exists, NoObject
  <1>1. \A c \in Contents \cup {Absent} :
           /\ NextVersion(c) \in Version /\ [content |-> c, gen |-> 1] \in Version
           /\ NextVersion(c).content = c
           /\ c # Live.content => NextVersion(c).gen # Live.gen
    <2>1. ASSUME NEW c \in Contents \cup {Absent}, c # Live.content PROVE NextVersion(c).gen # Live.gen
      BY <1>0, <2>1 DEF NextVersion, Version
    <2> QED BY <2>1, HelperTypes DEF Version, NextVersion
  <1>2. hist' = hist \/ \E v : New(v)
    <2>1. CASE ExternalWrite
      <3>1. (\E c \in Contents : hist' = Append(hist, NextVersion(c))) \/ hist' = Append(hist, NoObject)
        BY <2>1 DEF ExternalWrite
      <3>2. ASSUME NEW c \in Contents, hist' = Append(hist, NextVersion(c)) PROVE New(NextVersion(c))
        BY <1>1, <3>2
      <3> QED BY <1>0, <3>1, <3>2
    <2>2. CASE DeleteReplicated
      BY <1>0, <2>2 DEF DeleteReplicated
    <2>3. CASE CreateReplicated
      <3>1. PICK v : v = [content |-> desired, gen |-> 1]
        OBVIOUS
      <3>2. hist' = hist \/ (~Exists(Live) /\ hist' = Append(hist, v))
        BY <2>3, <3>1 DEF CreateReplicated, Appended, NotApplied
      <3> QED BY <1>1, <3>1, <3>2 DEF TypeOK
    <2>4. CASE UpdateReplicated
      <3>1. hist' = hist \/ hist' = Append(hist, NextVersion(desired))
        BY <2>4 DEF UpdateReplicated, Appended, NotApplied
      <3>2. ASSUME hist' = Append(hist, NextVersion(desired)) PROVE New(NextVersion(desired))
        BY <1>1, <3>2 DEF TypeOK
      <3> QED BY <3>1, <3>2
    <2> QED
      BY <2>1, <2>2, <2>3, <2>4 DEF Next, Environment, ChangeInputs, ChangeManagedCluster, Crash,
         Watching, InformerSync, CreateFunc, DeleteFunc, UpdateFunc, Handle, HandleInputs,
         RefreshManagedCluster, TimerFires, Reconcile, GetReplicated, ReconcileError, RecordDeleted,
         SkipForeign, StartCleanUp, RecordDeletion, BuildReplicated, BuildFails, CreateReturned,
         UpdateReturned, AtRest, vars, apiVars
  <1>3. CASE hist' = hist
    BY <1>3 DEF HistSound, Changes, Exists
  <1>4. ASSUME NEW v, New(v) PROVE HistSound'
    <2>1. PICK k \in Nat \ {0} : k = Len(hist)
      BY <1>0
    <2>2. /\ Len(hist') = k + 1 /\ hist'[k + 1] = v /\ hist[k] = Live
          /\ \A i \in 1 .. k : hist'[i] = hist[i]
      BY <1>0, <1>4, <2>1 DEF Live
    <2>3. \A m \in 1 .. (k - 1) : Changes(m)' <=> Changes(m)
      BY <2>2 DEF Changes
    <2>4. Changes(k)' <=> Live.content # v.content
      BY <2>2 DEF Changes
    <2>5. ASSUME NEW m \in 1 .. k, Changes(m)', Exists(hist[m])', Exists(hist[m + 1])'
          PROVE  hist'[m].gen # hist'[m + 1].gen
      <3>1. CASE m = k
        BY <1>4, <2>2, <2>4, <2>5, <3>1 DEF Exists
      <3>2. CASE m # k
        <4>1. m \in 1 .. (k - 1) /\ hist'[m] = hist[m] /\ hist'[m + 1] = hist[m + 1]
          BY <2>2, <3>2
        <4> QED BY <2>1, <2>3, <2>5, <4>1 DEF HistSound, Exists
      <3> QED BY <3>1, <3>2
    <2>6. ASSUME NEW i \in 1 .. (k + 1), NEW j \in i .. (k + 1)
          PROVE  hist'[i].content = hist'[j].content \/ \E m \in i .. (j - 1) : Changes(m)'
      <3>1. CASE i = j
        BY <3>1
      <3>2. CASE j \in 1 .. k
        <4>1. hist[i].content = hist[j].content \/ \E m \in i .. (j - 1) : Changes(m)
          BY <2>1, <3>2 DEF HistSound
        <4>2. \A m \in i .. (j - 1) : m \in 1 .. (k - 1)
          BY <3>2
        <4>3. hist'[i] = hist[i] /\ hist'[j] = hist[j]
          BY <2>2, <3>2
        <4> QED BY <2>3, <4>1, <4>2, <4>3
      <3>3. CASE i # j /\ j = k + 1
        <4>1. i \in 1 .. k /\ k \in i .. k /\ hist'[i] = hist[i] /\ hist'[j] = v
          BY <2>2, <3>3
        <4>2. hist[i].content = hist[k].content \/ \E m \in i .. (k - 1) : Changes(m)
          BY <2>1, <4>1 DEF HistSound
        <4>3. \A m \in i .. (k - 1) : m \in 1 .. (k - 1) /\ m \in i .. (j - 1)
          BY <3>3
        <4>4. k \in i .. (j - 1)
          BY <3>3
        <4> QED BY <2>2, <2>3, <2>4, <4>1, <4>2, <4>3, <4>4
      <3> QED BY <3>1, <3>2, <3>3
    <2> QED BY <2>2, <2>5, <2>6 DEF HistSound
  <1> QED BY <1>2, <1>3, <1>4

LEMMA EntrySoundStep == ASSUME TypeOK, EntrySound, [Next]_vars PROVE EntrySound'
  <1>0. Len(hist) \in Nat \ {0} /\ Len(hist') \in Nat /\ Len(hist') >= Len(hist)
    BY HistoryGrows, GrowsKeeps DEF TypeOK
  <1>1. entry' \in {entry, Empty, NoEntry, Rv(written), Deleted(read.rv)}
    <2>1. Environment => entry' = entry \/ entry' = NoEntry
      BY DEF Environment, ChangeInputs, ChangeManagedCluster, ExternalWrite, Crash, mapVars
    <2>2. Watching => entry' = entry \/ entry' = Empty
      BY DEF Watching, InformerSync, CreateFunc, DeleteFunc, UpdateFunc, Handle,
             HandleInputs, RefreshManagedCluster, TimerFires, mapVars, Loaded
    <2>3. Reconcile => entry' \in {entry, Empty, NoEntry, Rv(written), Deleted(read.rv)}
      BY DEF Reconcile, GetReplicated, ReconcileError, RecordDeleted, ClearedEntry, SkipForeign,
             StartCleanUp, DeleteReplicated, RecordDeletion, DeletedMarker, BuildReplicated, BuildFails,
             CreateReplicated, CreateReturned, UpdateReplicated, UpdateReturned, mapVars, Loaded
    <2>4. AtRest \/ UNCHANGED vars => entry' = entry
      BY DEF AtRest, vars
    <2> QED BY <2>1, <2>2, <2>3, <2>4 DEF Next
  <1>2. written \in 0 .. Len(hist) /\ read.rv \in 0 .. Len(hist) /\ entry.rv \in Nat
    BY DEF TypeOK, Entry
  <1> QED BY <1>0, <1>1, <1>2 DEF EntrySound, Empty, NoEntry, Rv, Deleted

(* What a step does to the changes that are yet to be seen.                    *)
LEMMA EventsKnown ==
    ASSUME TypeOK, Grows
    PROVE  /\ \A e \in ToSet(events) : Before(e)' = Before(e) /\ After(e)' = After(e)
           /\ \A n \in 1 .. Len(hist) : Exists(hist[n])' <=> Exists(hist[n])
           /\ seen' = seen => Cached' = Cached
  <1>1. \A i \in 1 .. Len(hist) : hist'[i] = hist[i]
    BY GrowsKeeps
  <1>2. \A e \in ToSet(events) : e.old \in 0 .. Len(hist) /\ e.new \in 1 .. Len(hist)
    <2>1. ToSet(events) \subseteq [old : 0 .. Len(hist), new : 1 .. Len(hist)]
      BY ToSetType DEF TypeOK
    <2> QED BY <2>1
  <1>3. Len(hist) \in Nat /\ seen \in 1 .. Len(hist)
    BY DEF TypeOK
  <1>4. \A e \in ToSet(events) : Before(e)' = Before(e) /\ After(e)' = After(e)
    <2> SUFFICES ASSUME NEW e \in ToSet(events) PROVE Before(e)' = Before(e) /\ After(e)' = After(e)
      OBVIOUS
    <2>1. After(e)' = After(e)
      BY <1>1, <1>2 DEF After
    <2>2. e.old # 0 => e.old \in 1 .. Len(hist)
      BY <1>2, <1>3
    <2> QED BY <1>1, <2>1, <2>2 DEF Before
  <1>5. seen' = seen => Cached' = Cached
    BY <1>1, <1>3 DEF Cached
  <1>6. \A n \in 1 .. Len(hist) : Exists(hist[n])' <=> Exists(hist[n])
    BY <1>1 DEF Exists
  <1> QED BY <1>4, <1>5, <1>6

LEMMA PendingGrows ==
    ASSUME TypeOK, Grows, UNCHANGED <<seen, events>>, NEW s \in 1 .. Len(hist), AllPending(s)
    PROVE  AllPending(s)'
  <1>1. /\ Len(hist) \in Nat /\ seen \in 1 .. Len(hist) /\ Len(hist') \in Nat
        /\ \A i \in 1 .. Len(hist) : hist'[i] = hist[i]
    BY GrowsKeeps DEF TypeOK
  <1> SUFFICES ASSUME NEW m \in s .. (Len(hist') - 1), Changes(m)'
               PROVE  Pending(m)'
    BY DEF AllPending
  <1>2. CASE m >= Len(hist)
    BY <1>1, <1>2 DEF Pending
  <1>3. CASE m < Len(hist)
    <2>1. m \in s .. (Len(hist) - 1) /\ m \in 1 .. Len(hist) /\ m + 1 \in 1 .. Len(hist)
      BY <1>1, <1>3
    <2>2. Changes(m)
      BY <1>1, <2>1 DEF Changes
    <2>3. Pending(m)
      BY <2>1, <2>2 DEF AllPending
    <2> QED BY <2>3 DEF Pending
  <1> QED BY <1>1, <1>2, <1>3

LEMMA PendingSynced ==
    ASSUME TypeOK, InformerSync, ~lost', NEW s \in 1 .. Len(hist), AllPending(s)
    PROVE  AllPending(s)'
  <1>1. PICK e : e = [old |-> seen, new |-> seen + 1]
    OBVIOUS
  <1>a. /\ seen' = seen + 1 /\ hist' = hist /\ seen + 1 \in 1 .. Len(hist)
         /\ events' = IF Exists(Cached) \/ Exists(hist[seen + 1]) THEN Append(events, e) ELSE events
    <2>1. PICK n \in (seen + 1) .. Len(hist) :
             /\ seen' = n /\ (lost \/ n # seen + 1) = lost'
             /\ events' = IF Exists(Cached) \/ Exists(hist[n])
                          THEN Append(events, [old |-> seen, new |-> n]) ELSE events
      BY DEF InformerSync
    <2>2. n = seen + 1 /\ hist' = hist
      BY <2>1 DEF InformerSync, apiVars
    <2>3. seen + 1 \in 1 .. Len(hist)
      BY <2>1, <2>2 DEF TypeOK
    <2>4. events' = IF Exists(Cached) \/ Exists(hist[seen + 1]) THEN Append(events, e) ELSE events
      BY <1>1, <2>1, <2>2
    <2> QED BY <2>1, <2>2, <2>3, <2>4
  <1>2. /\ Len(hist) \in Nat /\ seen \in 1 .. Len(hist)
        /\ events \in Seq([old : 0 .. Len(hist), new : 1 .. Len(hist)])
    BY DEF TypeOK
  <1>3. e \in [old : 0 .. Len(hist), new : 1 .. Len(hist)]
    BY <1>1, <1>a, <1>2
  <1>4. /\ ToSet(events) \subseteq ToSet(events')
        /\ Exists(Cached) \/ Exists(hist[seen + 1]) => e \in ToSet(events')
    <2>1. CASE Exists(Cached) \/ Exists(hist[seen + 1])
      <3>1. events' = Append(events, e)
        BY <1>a, <2>1
      <3>2. PICK S : events \in Seq(S) /\ e \in S
        BY <1>2, <1>3
      <3>3. ToSet(Append(events, e)) = ToSet(events) \cup {e}
        BY <3>2, ToSetAppend
      <3> QED BY <3>1, <3>3
    <2>2. CASE ~(Exists(Cached) \/ Exists(hist[seen + 1]))
      BY <1>a, <2>2
    <2> QED BY <2>1, <2>2
  <1> SUFFICES ASSUME NEW m \in s .. (Len(hist) - 1), Changes(m)
               PROVE  Pending(m)'
    BY <1>a DEF AllPending, Changes
  <1>5. Pending(m) /\ m \in Nat
    BY DEF AllPending
  <1>6. CASE m = seen
    <2>1. Exists(Cached) \/ Exists(hist[seen + 1])
      BY <1>6 DEF Changes, Exists, Cached
    <2> QED BY <1>1, <1>4, <1>6, <2>1 DEF Pending
  <1>7. CASE m # seen
    <2>1. CASE m >= seen
      BY <1>2, <1>5, <1>7, <1>a, <2>1 DEF Pending
    <2>2. CASE [old |-> m, new |-> m + 1] \in ToSet(events)
      BY <1>4, <2>2 DEF Pending
    <2> QED BY <1>5, <2>1, <2>2 DEF Pending
  <1> QED BY <1>6, <1>7

LEMMA PendingHandled ==
    ASSUME TypeOK, events # <<>>, events' = Tail(events), UNCHANGED <<hist, seen>>,
           NEW s \in 1 .. Len(hist), AllPending(s)
    PROVE  \/ AllPending(s)'
           \/ \E m \in s .. (Len(hist) - 1) : Changes(m) /\ Head(events) = [old |-> m, new |-> m + 1]
  <1>1. ToSet(events) = {Head(events)} \cup ToSet(events')
    BY ToSetTail DEF TypeOK
  <1>2. \A m : Changes(m)' <=> Changes(m)
    BY DEF Changes
  <1> SUFFICES ASSUME NEW m \in s .. (Len(hist) - 1), Changes(m), ~Pending(m)'
               PROVE  Head(events) = [old |-> m, new |-> m + 1]
    BY <1>2 DEF AllPending
  <1>3. Pending(m)
    BY DEF AllPending
  <1> QED BY <1>1, <1>3 DEF Pending

LEMMA NoneBehind == ASSUME TypeOK, NEW s \in Nat, s >= seen PROVE AllPending(s)
  BY DEF TypeOK, AllPending, Pending

LEMMA ReadBasedKept ==
    ASSUME TypeOK, Grows, ReadBased, UNCHANGED <<seen, events, read>>
    PROVE  ReadBased'
  <1>1. PICK s \in 1 .. seen : /\ AllPending(s) /\ (read.exists => s = read.rv)
                               /\ ~read.exists /\ ~read.stale => ~Exists(hist[s])
    BY DEF ReadBased
  <1>2. s \in 1 .. Len(hist)
    BY DEF TypeOK
  <1>3. AllPending(s)' /\ (Exists(hist[s])' <=> Exists(hist[s]))
    BY <1>1, <1>2, PendingGrows, EventsKnown
  <1> QED BY <1>1, <1>3 DEF ReadBased

(* Steps that leave the cache, the map and the reconciler alone.               *)
LEMMA StillKept ==
    ASSUME TypeOK, Grows, AttendedInv, Unattended' => Unattended,
           UNCHANGED <<seen, events, entry, want, pc, read, desired, reply, written>>,
           NotOurs \/ refresh => NotOurs' \/ refresh'
    PROVE  AttendedInv'
  <1>0. /\ Len(hist) \in Nat /\ Len(hist') \in Nat /\ Len(hist') >= Len(hist)
        /\ \A i \in 1 .. Len(hist) : hist'[i] = hist[i]
    BY GrowsKeeps DEF TypeOK
  <1>1. Cached' = Cached /\ \A e \in ToSet(events) : Before(e)' = Before(e) /\ After(e)' = After(e)
    BY EventsKnown
  <1>2. (Exists(Cached)' <=> Exists(Cached)) /\ (DeletePending' <=> DeletePending) /\ (Noticed' <=> Noticed)
    BY <1>1 DEF Exists, DeletePending, Noticed
  <1>3. ASSUME NEW n \in 1 .. Len(hist), AllPending(n)
        PROVE  AllPending(n)' /\ n \in 1 .. Len(hist') /\ hist'[n] = hist[n]
    BY <1>0, <1>3, PendingGrows
  <1>4. ASSUME QuietSound PROVE QuietSound'
    <2>1. CASE Noticed
      BY <1>2, <2>1 DEF QuietSound
    <2>2. CASE Foreign
      BY <1>2, <2>2 DEF QuietSound, Foreign
    <2>3. ASSUME NEW b \in 1 .. Len(hist), Based(b) PROVE QuietSound'
      BY <1>3, <2>3 DEF QuietSound, Based, Exists
    <2> QED BY <1>4, <2>1, <2>2, <2>3 DEF QuietSound
  <1>5. ASSUME WorkSound PROVE WorkSound'
    <2>1. ReadBased'
      BY <1>5, ReadBasedKept DEF WorkSound
    <2>2. WriteSound => WriteSound'
      <3>1. PICK w : w = written /\ w = written'
        OBVIOUS
      <3>2. SUFFICES ASSUME WriteSound PROVE WriteSound'
        OBVIOUS
      <3>3. w \in 1 .. Len(hist) /\ hist[w].content = desired /\ AllPending(w)
        BY <3>1, <3>2 DEF WriteSound, AllPending
      <3>4. AllPending(w)' => AllPending(written)'
        BY <3>1 DEF AllPending
      <3> QED BY <1>3, <3>1, <3>3, <3>4 DEF WriteSound
    <2> QED BY <1>2, <1>5, <2>1, <2>2 DEF WorkSound
  <1> QED BY <1>4, <1>5 DEF AttendedInv

(* A propagator that has just started.                                         *)
Started == /\ TypeOK /\ pc = "idle" /\ seen = Len(hist) /\ events = FirstEvents(hist)
           /\ entry = NoEntry /\ notify = (want \in Contents)

LEMMA StartedSound == Started => AttendedInv
  <1> SUFFICES ASSUME Started, Unattended PROVE QuietSound
    BY DEF AttendedInv, Started
  <1>0. want \notin Contents
    BY DEF Started, Unattended
  <1>1. want \in NotWanted /\ want \notin Contents /\ Len(hist) \in Nat \ {0}
    BY <1>0 DEF Started, TypeOK
  <1>2. CASE Exists(Live)
    <2>1. PICK e : e = [old |-> 0, new |-> Len(hist)]
      OBVIOUS
    <2>2. events = <<e>>
      BY <1>2, <2>1 DEF Started, FirstEvents, Live
    <2>3. e \in ToSet(events)
      BY <2>2 DEF ToSet
    <2>4. ~Exists(Before(e)) /\ Exists(After(e))
      BY <1>2, <2>1 DEF Before, After, Live, Exists, NoObject
    <2> QED BY <2>3, <2>4 DEF QuietSound, Noticed, Started, NoEntry
  <1>3. CASE ~Exists(Live)
    <2>1. AllPending(Len(hist))
      BY <1>1, NoneBehind DEF Started
    <2> QED BY <1>1, <1>3, <2>1 DEF QuietSound, Based, Started, NoEntry, Live
  <1> QED BY <1>2, <1>3

LEMMA StartedNext == Started' => AttendedInv'
  BY StartedSound, PTL

LEMMA EnvironmentAttended ==
    ASSUME TypeOK, TypeOK', Grows, AttendedInv, Environment
    PROVE  AttendedInv'
  <1> USE DEF inputVars, workerVars, cacheVars, mapVars, apiVars
  <1>1. CASE ChangeInputs
    BY <1>1 DEF ChangeInputs, AttendedInv, Unattended
  <1>2. CASE ChangeManagedCluster
    <2>1. /\ UNCHANGED <<seen, events, entry, want, pc, read, desired, reply, written>> /\ refresh'
          /\ UNCHANGED <<queue, notify, lost>>
      BY <1>2 DEF ChangeManagedCluster
    <2> QED BY <2>1, StillKept DEF Unattended
  <1>3. CASE ExternalWrite
    <2>1. /\ UNCHANGED <<seen, events, entry, want, pc, read, desired, reply, written, inCluster>>
          /\ UNCHANGED <<queue, notify, lost, refresh>>
      BY <1>3 DEF ExternalWrite
    <2> QED BY <2>1, StillKept DEF Unattended, NotOurs
  <1>4. CASE Crash
    <2>1. Started'
      BY <1>4 DEF Crash, Started, FirstEvents, Exists
    <2> QED BY <2>1, StartedNext
  <1> QED BY <1>1, <1>2, <1>3, <1>4 DEF Environment

LEMMA SyncAttended == ASSUME TypeOK, AttendedInv, InformerSync PROVE AttendedInv'
  <1> SUFFICES ASSUME Unattended' PROVE IF pc' = "idle" THEN QuietSound' ELSE WorkSound'
    BY DEF AttendedInv
  <1>0. /\ UNCHANGED <<hist, entry, want, notify, inCluster, refresh, queue>>
        /\ UNCHANGED <<pc, read, desired, reply, written>>
    BY DEF InformerSync, apiVars, mapVars, inputVars, workerVars
  <1>1. ~lost' /\ Unattended
    BY <1>0 DEF InformerSync, Unattended
  <1>2. /\ seen' = seen + 1 /\ seen \in 1 .. Len(hist) /\ seen + 1 \in 1 .. Len(hist)
        /\ ToSet(events) \subseteq ToSet(events') /\ Len(hist) \in Nat
        /\ Exists(Cached) => [old |-> seen, new |-> seen + 1] \in ToSet(events')
    <2>1. PICK n \in (seen + 1) .. Len(hist) :
             /\ seen' = n /\ lost' = (lost \/ n # seen + 1)
             /\ events' = IF Exists(Cached) \/ Exists(hist[n])
                          THEN Append(events, [old |-> seen, new |-> n]) ELSE events
      BY DEF InformerSync
    <2>0. n = seen + 1
      BY <1>1, <2>1
    <2>2. n = seen + 1 /\ seen \in 1 .. Len(hist) /\ Len(hist) \in Nat /\ seen + 1 \in 1 .. Len(hist)
      BY <2>0, <2>1 DEF TypeOK
    <2>3. PICK e : e = [old |-> seen, new |-> seen + 1]
      OBVIOUS
    <2>4. e \in [old : 0 .. Len(hist), new : 1 .. Len(hist)]
      BY <2>2, <2>3
    <2>5. events \in Seq([old : 0 .. Len(hist), new : 1 .. Len(hist)])
      BY DEF TypeOK
    <2>6. PICK S : events \in Seq(S) /\ e \in S
      BY <2>4, <2>5
    <2>7. ToSet(Append(events, e)) = ToSet(events) \cup {e}
      BY <2>6, ToSetAppend
    <2>8. events' = events \/ events' = Append(events, e)
      BY <2>1, <2>2, <2>3
    <2>9. Exists(Cached) => events' = Append(events, e)
      BY <2>1, <2>2, <2>3
    <2> QED BY <2>1, <2>2, <2>3, <2>7, <2>8, <2>9
  <1>3. \A e : Before(e)' = Before(e) /\ After(e)' = After(e)
    BY <1>0 DEF Before, After
  <1>4. Exists(Cached) /\ ~Exists(Cached)' =>
           \E e \in ToSet(events') : Exists(Before(e)) /\ ~Exists(After(e))
    <2> SUFFICES ASSUME Exists(Cached), ~Exists(Cached)'
                 PROVE  \E e \in ToSet(events') : Exists(Before(e)) /\ ~Exists(After(e))
      OBVIOUS
    <2>1. PICK e : e = [old |-> seen, new |-> seen + 1]
      OBVIOUS
    <2>2. Before(e) = Cached /\ After(e) = hist[seen + 1]
      BY <1>2, <2>1 DEF Before, After, Cached
    <2>3. ~Exists(hist[seen + 1])
      BY <1>0, <1>2 DEF Cached, Exists
    <2> QED BY <1>2, <2>1, <2>2, <2>3
  <1>5. ASSUME NEW n \in 1 .. Len(hist), AllPending(n) PROVE AllPending(n)'
    BY <1>1, <1>5, PendingSynced
  <1>6. CASE pc = "idle"
    <2>1. QuietSound
      BY <1>1, <1>6 DEF AttendedInv
    <2>2. CASE Noticed
      <3>1. Noticed'
        BY <1>0, <1>2, <1>3, <2>2 DEF Noticed, Exists
      <3> QED BY <1>0, <1>6, <3>1 DEF QuietSound
    <2>3. CASE Foreign
      <3>1. CASE entry.kind = "rv" /\ entry.rv > seen + 1 /\ ~Exists(Cached)'
        <4>1. Exists(Cached)
          <5>1. entry.rv > seen
            BY <1>2, <3>1 DEF TypeOK, Entry
          <5> QED BY <2>3, <3>1, <5>1 DEF Foreign
        <4>2. Noticed'
          BY <1>0, <1>3, <1>4, <3>1, <4>1 DEF Noticed, Exists
        <4> QED BY <1>0, <1>6, <4>2 DEF QuietSound
      <3>2. CASE ~(entry.kind = "rv" /\ entry.rv > seen + 1 /\ ~Exists(Cached)')
        <4>1. Foreign'
          BY <1>0, <1>2, <2>3, <3>2 DEF Foreign, NotOurs
        <4> QED BY <1>0, <1>6, <4>1 DEF QuietSound
      <3> QED BY <3>1, <3>2
    <2>4. ASSUME NEW b \in 1 .. Len(hist), Based(b) PROVE QuietSound'
      <3>1. Based(b)'
        BY <1>0, <1>5, <2>4 DEF Based, Exists
      <3> QED BY <1>0, <3>1 DEF QuietSound
    <2> QED BY <1>0, <1>6, <2>1, <2>2, <2>3, <2>4 DEF QuietSound
  <1>7. CASE pc # "idle"
    <2>1. WorkSound
      BY <1>1, <1>7 DEF AttendedInv
    <2>2. ReadBased'
      <3>1. PICK s \in 1 .. seen : /\ AllPending(s) /\ (read.exists => s = read.rv)
                                   /\ ~read.exists /\ ~read.stale => ~Exists(hist[s])
        BY <2>1 DEF WorkSound, ReadBased
      <3>2. s \in 1 .. Len(hist) /\ s \in 1 .. (seen + 1)
        BY <1>2
      <3> QED BY <1>0, <1>2, <1>5, <3>1, <3>2 DEF ReadBased, Exists
    <2>3. Exists(Cached) \/ DeletePending => Exists(Cached)' \/ DeletePending'
      BY <1>2, <1>3, <1>4 DEF DeletePending, Exists
    <2>4. WriteSound => WriteSound'
      <3>1. SUFFICES ASSUME WriteSound PROVE WriteSound'
        OBVIOUS
      <3>2. PICK w \in 1 .. Len(hist) : w = written /\ w = written'
        BY <1>0, <3>1 DEF WriteSound
      <3>3. AllPending(w)
        BY <3>1, <3>2 DEF WriteSound, AllPending
      <3>4. AllPending(written)' 
        BY <1>5, <3>2, <3>3 DEF AllPending
      <3> QED BY <1>0, <3>1, <3>4 DEF WriteSound
    <2> QED BY <1>0, <1>7, <2>1, <2>2, <2>3, <2>4 DEF WorkSound
  <1> QED BY <1>6, <1>7

(* A predicate that lets an event go by while nobody works on the key.         *)
LEMMA HandleAttended ==
    ASSUME TypeOK, HistSound, AttendedInv, CreateFunc \/ DeleteFunc \/ UpdateFunc
    PROVE  AttendedInv'
  <1> SUFFICES ASSUME Unattended' PROVE IF pc' = "idle" THEN QuietSound' ELSE WorkSound'
    BY DEF AttendedInv
  <1>1. PICK e, passes :
           /\ e = Head(events) /\ events # <<>> /\ Handle(e, passes)
           /\ \/ ~Exists(Before(e)) /\ Exists(After(e)) /\ passes = CreatePasses(e)
              \/ Exists(Before(e)) /\ ~Exists(After(e)) /\ passes = DeletePasses(e)
              \/ Exists(Before(e)) /\ Exists(After(e)) /\ passes = UpdatePasses(e)
    BY DEF CreateFunc, DeleteFunc, UpdateFunc
  <1>2. /\ UNCHANGED <<hist, seen, want, notify, inCluster, refresh, pc, read, desired, reply, written>>
        /\ entry' = Loaded /\ events' = Tail(events) /\ ~Locked
    BY <1>1 DEF Handle, apiVars, inputVars, workerVars
  <1>3. ~passes /\ queue = "none"
    BY <1>1 DEF Handle, Unattended, Add
  <1>4. ~lost /\ (pc # "idle" => Before(e).content = After(e).content)
    BY <1>1, <1>3 DEF Handle, Unattended
  <1>5. Unattended
    BY <1>2, <1>3, <1>4 DEF Unattended
  <1>6. /\ entry.kind = "rv" => entry' = entry
        /\ entry.kind = "deleted" => entry' = entry
        /\ entry.kind \in {"none", "empty"} => entry'.kind \in {"none", "empty"}
        /\ entry.kind \in {"none", "empty", "rv", "deleted"}
    BY <1>2 DEF Loaded, NoEntry, Empty, TypeOK, Entry
  <1>7. /\ ToSet(events) = {e} \cup ToSet(events')
    BY <1>1, <1>2, ToSetTail DEF TypeOK
  <1>8. \A x : Before(x)' = Before(x) /\ After(x)' = After(x)
    BY <1>2 DEF Before, After
  <1>9. /\ ~Exists(Before(e)) /\ Exists(After(e)) => entry = Rv(e.new)
        /\ Exists(Before(e)) /\ ~Exists(After(e)) => entry.kind = "deleted"
        /\ Exists(Before(e)) /\ Exists(After(e)) => entry = Rv(e.new) \/ Before(e).gen = After(e).gen
    BY <1>1, <1>3 DEF CreatePasses, DeletePasses, UpdatePasses
  <1>10. Exists(Cached)' <=> Exists(Cached)
    BY <1>2 DEF Cached, Exists
  <1>11. ASSUME NEW m \in 1 .. (Len(hist) - 1), Changes(m), e = [old |-> m, new |-> m + 1]
         PROVE  /\ Before(e) = hist[m] /\ After(e) = hist[m + 1] /\ e.new = m + 1
                /\ Before(e).content # After(e).content
                /\ entry = Rv(m + 1) \/ (entry.kind = "deleted" /\ ~Exists(hist[m + 1]))
    <2>1. Before(e) = hist[m] /\ After(e) = hist[m + 1] /\ e.new = m + 1
      BY <1>11 DEF Before, After
    <2>2. Before(e).content # After(e).content
      BY <1>11, <2>1 DEF Changes
    <2>3. Exists(Before(e)) \/ Exists(After(e))
      BY <2>2 DEF Exists
    <2>4. Exists(hist[m]) /\ Exists(hist[m + 1]) => hist[m].gen # hist[m + 1].gen
      BY <1>11 DEF HistSound
    <2> QED BY <1>9, <2>1, <2>2, <2>3, <2>4
  <1>12. CASE pc = "idle"
    <2>1. QuietSound
      BY <1>5, <1>12 DEF AttendedInv
    <2>2. CASE Noticed
      <3>1. PICK x \in ToSet(events) :
               \/ entry.kind = "rv" /\ Exists(Before(x)) /\ ~Exists(After(x))
               \/ entry.kind \in {"none", "empty"} /\ ~Exists(Before(x)) /\ Exists(After(x))
        BY <2>2 DEF Noticed
      <3>2. x # e
        BY <1>9, <3>1 DEF Rv
      <3>3. x \in ToSet(events')
        BY <1>7, <3>2
      <3>4. Noticed'
        BY <1>6, <1>8, <3>1, <3>3 DEF Noticed, Exists
      <3> QED BY <1>2, <1>12, <3>4 DEF QuietSound
    <2>3. CASE Foreign
      <3>1. Foreign'
        BY <1>2, <1>6, <1>10, <2>3 DEF Foreign, NotOurs
      <3> QED BY <1>2, <1>12, <3>1 DEF QuietSound
    <2>4. ASSUME NEW b \in 1 .. Len(hist), Based(b) PROVE QuietSound'
      <3>1. CASE AllPending(b)'
        <4>1. Based(b)'
          BY <1>2, <1>6, <2>4, <3>1 DEF Based, Exists
        <4> QED BY <1>2, <4>1 DEF QuietSound
      <3>2. CASE ~AllPending(b)'
        <4>1. PICK m \in b .. (Len(hist) - 1) : Changes(m) /\ e = [old |-> m, new |-> m + 1]
          BY <1>1, <1>2, <2>4, <3>2, PendingHandled DEF Based
        <4>2. m \in 1 .. (Len(hist) - 1) /\ m + 1 \in 1 .. Len(hist) /\ m \in Nat /\ b \in Nat
          BY <4>1 DEF TypeOK
        <4>3. ~(entry = Rv(m + 1))
          <5>1. entry.kind = "rv" => entry.rv <= b
            BY <2>4 DEF Based
          <5>2. SUFFICES ASSUME entry = Rv(m + 1) PROVE FALSE
            OBVIOUS
          <5>3. entry.kind = "rv" /\ entry.rv = m + 1
            BY <5>2 DEF Rv
          <5>4. m + 1 <= b /\ b <= m
            BY <4>1, <5>1, <5>3
          <5> QED BY <4>2, <5>4
        <4>4. entry.kind = "deleted" /\ ~Exists(hist[m + 1])
          BY <1>11, <4>1, <4>2, <4>3
        <4>5. want \in NotWanted /\ want \notin Contents
          BY <2>4, <4>4 DEF Based, TypeOK
        <4>6. PICK n \in 1 .. Len(hist) : n = m + 1
          BY <4>2
        <4>7. AllPending(n)
          <5>1. \A k \in n .. (Len(hist) - 1) : k \in b .. (Len(hist) - 1)
            BY <4>1, <4>2, <4>6
          <5> QED BY <2>4, <5>1 DEF Based, AllPending
        <4>8. AllPending(n)'
          <5>1. ASSUME NEW k \in n .. (Len(hist) - 1), e = [old |-> k, new |-> k + 1] PROVE FALSE
            <6>1. e.old = k /\ e.old = m
              BY <4>1, <5>1
            <6> QED BY <4>2, <4>6, <5>1, <6>1
          <5> QED BY <1>1, <1>2, <4>7, <5>1, PendingHandled
        <4>9. Based(n)'
          BY <1>2, <1>6, <4>4, <4>5, <4>6, <4>8 DEF Based, Exists
        <4> QED BY <1>2, <4>9 DEF QuietSound
      <3> QED BY <3>1, <3>2
    <2> QED BY <1>2, <1>12, <2>1, <2>2, <2>3, <2>4 DEF QuietSound
  <1>13. CASE pc # "idle"
    <2>1. WorkSound /\ pc \notin {"creating", "updating", "deleting"}
      BY <1>2, <1>5, <1>13 DEF AttendedInv, Locked
    <2>2. ReadBased'
      <3>1. PICK s \in 1 .. seen : /\ AllPending(s) /\ (read.exists => s = read.rv)
                                   /\ ~read.exists /\ ~read.stale => ~Exists(hist[s])
        BY <2>1 DEF WorkSound, ReadBased
      <3>2. s \in 1 .. Len(hist) /\ \A m \in s .. (Len(hist) - 1) : m \in 1 .. (Len(hist) - 1)
        BY DEF TypeOK
      <3>3. AllPending(s)'
        <4>1. SUFFICES ASSUME ~AllPending(s)' PROVE FALSE
          OBVIOUS
        <4>2. PICK m \in s .. (Len(hist) - 1) : Changes(m) /\ e = [old |-> m, new |-> m + 1]
          BY <1>1, <1>2, <3>1, <3>2, <4>1, PendingHandled
        <4>3. Before(e).content # After(e).content
          BY <1>11, <3>2, <4>2
        <4> QED BY <1>4, <1>13, <4>3
      <3> QED BY <1>2, <3>1, <3>3 DEF ReadBased, Exists
    <2>3. DeletePending => DeletePending'
      <3>1. SUFFICES ASSUME NEW x \in ToSet(events), Exists(Before(x)), ~Exists(After(x))
                     PROVE  x \in ToSet(events')
        BY <1>8 DEF DeletePending, Exists
      <3>2. x # e
        BY <1>4, <1>13, <3>1 DEF Exists
      <3> QED BY <1>7, <3>2
    <2> QED BY <1>2, <1>10, <1>13, <2>1, <2>2, <2>3 DEF WorkSound
  <1> QED BY <1>12, <1>13

LEMMA WatchingAttended ==
    ASSUME TypeOK, HistSound, AttendedInv, Watching
    PROVE  AttendedInv'
  <1> USE DEF inputVars, workerVars, cacheVars, mapVars, apiVars
  <1>1. CASE HandleInputs
    BY <1>1 DEF HandleInputs, AttendedInv, Unattended, Add
  <1>2. CASE TimerFires
    BY <1>2 DEF TimerFires, AttendedInv, Unattended
  <1>3. CASE RefreshManagedCluster
    <2> SUFFICES ASSUME Unattended' PROVE AttendedInv'
      BY DEF AttendedInv
    <2>1. /\ UNCHANGED <<hist, seen, events, entry, want, notify, inCluster, lost>>
          /\ UNCHANGED <<pc, read, desired, reply, written>>
          /\ queue' = IF Exists(Cached) THEN Add ELSE queue
      BY <1>3 DEF RefreshManagedCluster
    <2>2. ~Exists(Cached) /\ Unattended
      BY <2>1 DEF Unattended, Add
    <2>3. CASE pc = "idle" /\ Foreign /\ ~NotOurs
      <3>1. want \in NotWanted /\ want \notin Contents /\ (entry.kind = "rv" => ~(entry.rv > seen))
        BY <2>2, <2>3, ContentsAssumption DEF Foreign
      <3>2. seen \in 1 .. Len(hist) /\ seen \in Nat /\ entry.rv \in Nat
        BY DEF TypeOK, Entry
      <3>3. PICK b \in 1 .. Len(hist) : b = seen
        BY <3>2
      <3>4. AllPending(b)'
        <4>1. AllPending(b)
          BY <3>2, <3>3, NoneBehind
        <4> QED BY <2>1, <4>1 DEF AllPending, Changes, Pending
      <3>5. Based(b)'
        BY <2>1, <2>2, <3>1, <3>2, <3>3, <3>4 DEF Based, Exists, Cached
      <3> QED BY <2>1, <2>3, <3>5 DEF AttendedInv, QuietSound
    <2>4. CASE pc = "idle" /\ Foreign /\ NotOurs
      <3>1. Foreign'
        BY <2>1, <2>4 DEF Foreign, NotOurs, Cached, Exists
      <3> QED BY <2>1, <2>4, <3>1 DEF AttendedInv, QuietSound
    <2>5. CASE ~(pc = "idle" /\ Foreign)
      <3>1. \A n : AllPending(n)' <=> AllPending(n)
        BY <2>1 DEF AllPending, Changes, Pending
      <3>2. \A e : Before(e)' = Before(e) /\ After(e)' = After(e)
        BY <2>1 DEF Before, After
      <3>3. CASE pc = "idle"
        <4>1. Noticed => Noticed'
          BY <2>1, <3>2 DEF Noticed, Exists
        <4>2. \A b \in 1 .. Len(hist) : Based(b) => Based(b)'
          BY <2>1, <3>1 DEF Based, Exists
        <4> QED BY <2>1, <2>2, <2>5, <3>3, <4>1, <4>2 DEF AttendedInv, QuietSound
      <3>4. CASE pc # "idle"
        <4>1. ReadBased => ReadBased'
          BY <2>1, <3>1 DEF ReadBased, Exists
        <4>2. WriteSound => WriteSound'
          BY <2>1 DEF WriteSound, AllPending, Changes, Pending
        <4>3. (Exists(Cached)' <=> Exists(Cached)) /\ (DeletePending => DeletePending')
          BY <2>1, <3>2 DEF DeletePending, Exists, Cached
        <4> QED BY <2>1, <2>2, <3>4, <4>1, <4>2, <4>3 DEF AttendedInv, WorkSound
      <3> QED BY <3>3, <3>4
    <2> QED BY <2>3, <2>4, <2>5
  <1> QED BY <1>1, <1>2, <1>3, SyncAttended, HandleAttended DEF Watching

LEMMA ReconcileAttended ==
    ASSUME TypeOK, TypeOK', Grows, AttendedInv, Reconcile
    PROVE  AttendedInv'
  <1> USE DEF inputVars, workerVars, cacheVars, mapVars, apiVars
  <1> SUFFICES ASSUME Unattended' PROVE IF pc' = "idle" THEN QuietSound' ELSE WorkSound'
    BY DEF AttendedInv
  <1>a. AddAfter # "none" /\ Len(hist) \in Nat \ {0} /\ seen \in 1 .. Len(hist)
    BY HelperTypes DEF TypeOK
  <1>b. want \in Contents => want \notin NotWanted
    BY ContentsAssumption
  <1>1. CASE GetReplicated
    <2>1. /\ UNCHANGED <<hist, seen, events>> /\ pc' = "decide"
          /\ read'.exists = (Exists(Cached) /\ ~CachedReplicatedPolicyIsStale)
          /\ read'.stale = CachedReplicatedPolicyIsStale
          /\ read'.rv = IF Exists(Cached) /\ ~CachedReplicatedPolicyIsStale THEN seen ELSE 0
      BY <1>1 DEF GetReplicated
    <2>2. PICK s \in 1 .. seen : s = seen
      BY <1>a
    <2>3. AllPending(s)'
      <3>1. AllPending(s)
        BY <1>a, <2>2, NoneBehind
      <3> QED BY <2>1, <3>1 DEF AllPending, Changes, Pending
    <2>4. ~read'.exists /\ ~read'.stale => ~Exists(hist[s])'
      <3>1. ~read'.exists /\ ~read'.stale => ~Exists(Cached)
        BY <2>1
      <3> QED BY <2>1, <2>2, <3>1 DEF Cached, Exists
    <2>5. read'.exists => s = read'.rv /\ Exists(Cached)'
      <3>1. read'.exists => Exists(Cached) /\ ~CachedReplicatedPolicyIsStale
        BY <2>1
      <3> QED BY <2>1, <2>2, <3>1 DEF Cached, Exists
    <2>6. ReadBased'
      BY <2>1, <2>3, <2>4, <2>5 DEF ReadBased
    <2> QED BY <2>1, <2>5, <2>6 DEF WorkSound
  <1>2. CASE ReconcileError \/ RecordDeletion \/ BuildFails
    BY <1>2, <1>a DEF ReconcileError, RecordDeletion, BuildFails, Finish, RequeueTombstone, Unattended
  <1>3. CASE RecordDeleted
    <2>1. /\ UNCHANGED <<hist, seen, events, want, lost, notify>> /\ pc = "decide" /\ want \in NotWanted
          /\ ~read.exists /\ pc' = "idle"
          /\ queue' = IF read.stale THEN RequeueTombstone ELSE queue
          /\ entry' = IF read.stale THEN entry ELSE NoEntry
      BY <1>3 DEF RecordDeleted, Finish, ClearedEntry
    <2>2. ~read.stale /\ Unattended /\ entry' = NoEntry
      BY <1>a, <2>1 DEF Unattended, RequeueTombstone
    <2>3. PICK s \in 1 .. seen : AllPending(s) /\ ~Exists(hist[s])
      BY <2>1, <2>2 DEF AttendedInv, WorkSound, ReadBased
    <2>4. s \in 1 .. Len(hist)
      BY <1>a
    <2>5. AllPending(s)'
      BY <2>1, <2>3 DEF AllPending, Changes, Pending
    <2>6. Based(s)'
      BY <1>b, <2>1, <2>2, <2>3, <2>4, <2>5 DEF Based, Exists, NoEntry
    <2> QED BY <2>1, <2>4, <2>6 DEF QuietSound
  <1>4. CASE SkipForeign
    <2>1. /\ UNCHANGED <<hist, seen, events, entry, want, lost, notify, inCluster, refresh>> /\ pc = "decide"
          /\ want \in NotWanted /\ read.exists /\ NotOurs /\ pc' = "idle" /\ queue' = queue
      BY <1>4 DEF SkipForeign, Finish
    <2>2. Exists(Cached) \/ DeletePending
      BY <2>1 DEF AttendedInv, WorkSound, Unattended
    <2>3. \A e : Before(e)' = Before(e) /\ After(e)' = After(e)
      BY <2>1 DEF Before, After
    <2>4. CASE entry.kind = "rv" /\ DeletePending
      <3>1. Noticed'
        BY <2>1, <2>3, <2>4 DEF Noticed, DeletePending, Exists
      <3> QED BY <2>1, <3>1 DEF QuietSound
    <2>5. CASE entry.kind # "rv" \/ Exists(Cached)
      <3>1. Foreign'
        BY <2>1, <2>5 DEF Foreign, NotOurs, Cached, Exists
      <3> QED BY <2>1, <3>1 DEF QuietSound
    <2> QED BY <2>2, <2>4, <2>5
  <1>5. ASSUME UNCHANGED <<seen, events, read>>, Unattended, pc # "idle" PROVE ReadBased'
    <2>1. ReadBased
      BY <1>5 DEF AttendedInv, WorkSound
    <2> QED BY <1>5, <2>1, ReadBasedKept
  <1>6. CASE StartCleanUp \/ DeleteReplicated \/ BuildReplicated
    <2>1. /\ UNCHANGED <<seen, events, read, want, queue, notify, lost>> /\ pc # "idle"
          /\ pc' \in {"cleanup", "deleting"} \/ (pc' = "write" /\ desired' = want /\ want \in Contents)
      BY <1>6 DEF StartCleanUp, DeleteReplicated, BuildReplicated
    <2>2. ReadBased'
      BY <1>5, <2>1 DEF Unattended
    <2> QED BY <2>1, <2>2 DEF WorkSound
  <1>7. ASSUME hist' = Append(hist, [content |-> desired, gen |-> 1]) \/ hist' = Append(hist, NextVersion(desired)),
               written' = Len(hist) + 1, desired' = desired
        PROVE  WriteSound'
    <2>1. PICK v : v.content = desired /\ hist' = Append(hist, v)
      <3>1. CASE hist' = Append(hist, [content |-> desired, gen |-> 1])
        <4>1. [content |-> desired, gen |-> 1].content = desired
          OBVIOUS
        <4> QED BY <3>1, <4>1
      <3>2. CASE hist' = Append(hist, NextVersion(desired))
        <4>1. NextVersion(desired).content = desired
          BY DEF NextVersion
        <4> QED BY <3>2, <4>1
      <3> QED BY <1>7, <3>1, <3>2
    <2>2. /\ Len(hist') = Len(hist) + 1 /\ hist'[Len(hist) + 1] = v
      BY <2>1 DEF TypeOK
    <2>3. AllPending(written)'
      BY <1>7, <1>a, <2>2 DEF AllPending
    <2> QED BY <1>7, <1>a, <2>1, <2>2, <2>3 DEF WriteSound
  <1>8. CASE CreateReplicated
    <2>1. /\ UNCHANGED <<seen, events, read, want, desired, queue, notify, lost>>
          /\ pc = "write" /\ pc' = "creating"
      BY <1>8 DEF CreateReplicated
    <2>2. ReadBased' /\ desired = want /\ want \in Contents
      BY <1>5, <2>1 DEF Unattended, AttendedInv, WorkSound
    <2>3. reply' = "ok" => WriteSound'
      <3>1. reply' = "ok" => hist' = Append(hist, [content |-> desired, gen |-> 1]) /\ written' = Len(hist) + 1
        BY <1>8 DEF CreateReplicated, Appended
      <3> QED BY <1>7, <2>1, <3>1
    <2> QED BY <2>1, <2>2, <2>3 DEF WorkSound
  <1>9. CASE UpdateReplicated
    <2>1. /\ UNCHANGED <<seen, events, read, want, desired, queue, notify, lost>>
          /\ pc = "write" /\ pc' = "updating" /\ read.exists
      BY <1>9 DEF UpdateReplicated
    <2>2. ReadBased' /\ desired = want /\ want \in Contents /\ ReadBased
      BY <1>5, <2>1 DEF Unattended, AttendedInv, WorkSound
    <2>3. reply' = "ok" => WriteSound'
      <3>1. SUFFICES ASSUME reply' = "ok" PROVE WriteSound'
        OBVIOUS
      <3>2. CASE hist[read.rv].content = desired /\ written' = read.rv /\ UNCHANGED hist
        <4>1. PICK s \in 1 .. seen : AllPending(s) /\ s = read.rv
          BY <2>1, <2>2 DEF ReadBased
        <4>2. s \in 1 .. Len(hist) /\ s = written'
          BY <1>a, <3>2, <4>1
        <4>3. AllPending(written)'
          BY <2>1, <3>2, <4>1, <4>2 DEF AllPending, Changes, Pending
        <4> QED BY <2>1, <3>2, <4>1, <4>2, <4>3 DEF WriteSound
      <3>3. CASE hist' = Append(hist, NextVersion(desired)) /\ written' = Len(hist) + 1
        BY <1>7, <2>1, <3>3
      <3> QED BY <1>9, <3>1, <3>2, <3>3 DEF UpdateReplicated, Appended
    <2> QED BY <2>1, <2>2, <2>3 DEF WorkSound
  <1>10. CASE CreateReturned \/ UpdateReturned
    <2>1. /\ UNCHANGED <<hist, seen, events, want, notify, lost>> /\ pc \in {"creating", "updating"}
          /\ pc' = "idle" /\ (queue' = AddAfter \/ (reply = "ok" /\ queue' = queue))
          /\ reply = "ok" => entry' = Rv(written)
      BY <1>10 DEF CreateReturned, UpdateReturned, Finish
    <2>2. reply = "ok" /\ Unattended
      BY <1>a, <2>1 DEF Unattended
    <2>3. WriteSound /\ desired = want /\ want \in Contents
      BY <2>1, <2>2 DEF AttendedInv, WorkSound
    <2>4. PICK w \in 1 .. Len(hist) : w = written
      BY <2>3 DEF WriteSound
    <2>5. AllPending(w)'
      BY <2>1, <2>3, <2>4 DEF WriteSound, AllPending, Changes, Pending
    <2>6. hist[w].content = want /\ entry'.kind = "rv" /\ entry'.rv = w
      BY <2>1, <2>2, <2>3, <2>4 DEF WriteSound, Rv
    <2>7. Based(w)'
      BY <1>a, <1>b, <2>1, <2>3, <2>5, <2>6 DEF Based
    <2> QED BY <2>1, <2>7 DEF QuietSound
  <1> QED
    BY <1>1, <1>2, <1>3, <1>4, <1>6, <1>8, <1>9, <1>10 DEF Reconcile

LEMMA AttendedStep ==
    ASSUME TypeOK, HistSound, AttendedInv, [Next]_vars
    PROVE  AttendedInv'
  <1>0. TypeOK' /\ Grows
    BY TypeStep, HistoryGrows
  <1>1. CASE AtRest \/ UNCHANGED vars
    <2>1. /\ UNCHANGED <<seen, events, entry, want, pc, read, desired, reply, written, inCluster>>
          /\ UNCHANGED <<queue, notify, lost, refresh>>
      BY <1>1 DEF AtRest, vars
    <2> QED BY <1>0, <2>1, StillKept DEF Unattended, NotOurs
  <1> QED
    BY <1>0, <1>1, EnvironmentAttended, WatchingAttended, ReconcileAttended DEF Next

LEMMA RestConverged == ASSUME TypeOK, ConvergeInv PROVE ConvergedUnlessLost
  <1> SUFFICES ASSUME Quiescent, ~lost PROVE Converged
    BY DEF ConvergedUnlessLost
  <1>1. /\ QuietSound /\ events = <<>> /\ seen = Len(hist) /\ ~refresh /\ Len(hist) \in Nat \ {0}
        /\ ToSet(events) = {}
    BY ToSetEmpty DEF Quiescent, ConvergeInv, AttendedInv, Unattended, TypeOK
  <1>2. CASE Foreign
    BY <1>1, <1>2, ContentsAssumption DEF Foreign, Converged
  <1>3. ASSUME NEW b \in 1 .. Len(hist), Based(b) PROVE Converged
    <2>1. ASSUME NEW m \in b .. (Len(hist) - 1) PROVE ~Changes(m)
      <3>1. ~(m >= seen)
        BY <1>1, <2>1
      <3> QED BY <1>1, <1>3, <3>1 DEF Based, AllPending, Pending
    <2>2. Len(hist) \in b .. Len(hist)
      BY <1>1
    <2>3. hist[b].content = Live.content
      BY <2>1, <2>2 DEF ConvergeInv, HistSound, Live
    <2> QED BY <1>3, <2>3 DEF Based, Converged, Exists
  <1> QED BY <1>1, <1>2, <1>3 DEF QuietSound, Noticed

LEMMA InitConverge == ASSUME Init PROVE ConvergeInv
  <1>1. TypeOK /\ Started
    BY TypeInit DEF Init, Started
  <1>2. AttendedInv /\ EntrySound
    BY <1>1, StartedSound DEF EntrySound, Started, NoEntry, TypeOK
  <1>3. Len(hist) = 1
    <2>1. PICK v : hist = <<v>>
      BY DEF Init
    <2> QED BY <2>1
  <1>4. HistSound
    BY <1>3 DEF HistSound
  <1> QED BY <1>2, <1>4 DEF ConvergeInv

LEMMA AlwaysConvergeInv == Spec => [](TypeOK /\ ConvergeInv)
  <1>1. Init => TypeOK /\ ConvergeInv
    BY TypeInit, InitConverge
  <1>2. TypeOK /\ ConvergeInv /\ [Next]_vars => (TypeOK /\ ConvergeInv)'
    BY TypeStep, HistStep, EntrySoundStep, AttendedStep DEF ConvergeInv
  <1> QED BY <1>1, <1>2, PTL DEF Spec

(* Reconcile and replicatedPolicyPredicates: in every behaviour, whatever the  *)
(* order of events, retries, foreign writes, restarts and relists, once nothing *)
(* is under way for the key the namespace holds what the inputs ask for, unless *)
(* a change was skipped after the reconciler last looked.                       *)
THEOREM RestIsConverged == Spec => []ConvergedUnlessLost
  <1>1. TypeOK /\ ConvergeInv => ConvergedUnlessLost
    BY RestConverged
  <1> QED BY <1>1, AlwaysConvergeInv, PTL

-----------------------------------------------------------------------------
(* The map's entry for an object that is gone.                                *)

(* Events follow each other: after one that shows the object, the cache has it  *)
(* or its deletion is among the later ones.                                    *)
EventsChained ==
    \A i \in DOMAIN events : Exists(After(events[i])) =>
       Exists(Cached) \/ \E j \in DOMAIN events :
          j > i /\ Exists(Before(events[j])) /\ ~Exists(After(events[j]))

(* Where nothing is wanted and nobody has the key, an entry is there because    *)
(* the cache has the object or its deletion is yet to be handled.              *)
EntryNeeded ==
    Unattended /\ pc = "idle" /\ inCluster /\ want \in NotWanted /\ entry # NoEntry
      => Exists(Cached) \/ DeletePending

(* What the informer hands over connects what the cache had and what it has.   *)
LEMMA Synced ==
    ASSUME TypeOK, InformerSync
    PROVE  /\ hist' = hist
           /\ \/ events' = events /\ ~Exists(Cached) /\ ~Exists(Cached)'
              \/ \E e \in [old : 0 .. Len(hist), new : 1 .. Len(hist)] :
                    events' = Append(events, e) /\ Before(e) = Cached /\ After(e) = Cached'
  <1>1. PICK n \in (seen + 1) .. Len(hist) :
           /\ seen' = n
           /\ events' = IF Exists(Cached) \/ Exists(hist[n])
                        THEN Append(events, [old |-> seen, new |-> n]) ELSE events
    BY DEF InformerSync
  <1>2. hist' = hist /\ seen \in 1 .. Len(hist) /\ Len(hist) \in Nat /\ n \in 1 .. Len(hist)
    BY <1>1 DEF InformerSync, apiVars, TypeOK
  <1>3. PICK e : e = [old |-> seen, new |-> n]
    OBVIOUS
  <1>4. e \in [old : 0 .. Len(hist), new : 1 .. Len(hist)]
    BY <1>2, <1>3
  <1>5. Cached' = hist[n]
    BY <1>1, <1>2 DEF Cached
  <1>6. Before(e) = Cached /\ After(e) = hist[n]
    BY <1>2, <1>3 DEF Before, After, Cached
  <1>7. CASE Exists(Cached) \/ Exists(hist[n])
    BY <1>1, <1>2, <1>3, <1>4, <1>5, <1>6, <1>7
  <1>8. CASE ~(Exists(Cached) \/ Exists(hist[n]))
    BY <1>1, <1>2, <1>5, <1>8 DEF Exists
  <1> QED BY <1>7, <1>8

LEMMA StartedChained == Started => EventsChained
  <1> SUFFICES ASSUME Started, NEW i \in DOMAIN events, Exists(After(events[i])) PROVE Exists(Cached)
    BY DEF EventsChained
  <1>1. CASE Exists(Live)
    BY <1>1 DEF Started, Cached, Live
  <1>2. CASE ~Exists(Live)
    BY <1>2 DEF Started, FirstEvents, Live
  <1> QED BY <1>1, <1>2

LEMMA StartedChainedNext == Started' => EventsChained'
  BY StartedChained, PTL

LEMMA ChainedStep == ASSUME TypeOK, EventsChained, [Next]_vars PROVE EventsChained'
  <1>0. TypeOK' /\ Grows
    BY TypeStep, HistoryGrows
  <1>1. CASE Crash
    <2>1. Started'
      BY <1>0, <1>1 DEF Crash, Started, FirstEvents, Exists, apiVars
    <2> QED BY <2>1, StartedChainedNext
  <1>2. CASE InformerSync
    <2>1. \A x : Before(x)' = Before(x) /\ After(x)' = After(x)
      BY <1>2, Synced DEF Before, After
    <2>2. CASE events' = events /\ ~Exists(Cached) /\ ~Exists(Cached)'
      BY <2>1, <2>2 DEF EventsChained, Exists
    <2>3. ASSUME NEW e, events' = Append(events, e), Before(e) = Cached, After(e) = Cached'
          PROVE  EventsChained'
      <3>1. PICK k \in Nat : k = Len(events)
        BY DEF TypeOK
      <3>2. /\ DOMAIN events = 1 .. k /\ DOMAIN events' = 1 .. (k + 1) /\ events'[k + 1] = e
            /\ \A i \in 1 .. k : events'[i] = events[i]
        BY <2>3, <3>1 DEF TypeOK
      <3> SUFFICES ASSUME NEW i \in 1 .. (k + 1), Exists(After(events[i]))', ~Exists(Cached)'
                   PROVE  \E j \in 1 .. (k + 1) :
                             j > i /\ Exists(Before(events[j]))' /\ ~Exists(After(events[j]))'
        BY <3>2 DEF EventsChained
      <3>3. i # k + 1
        BY <2>1, <2>3, <3>2 DEF Exists
      <3>4. i \in 1 .. k /\ Exists(After(events[i]))
        BY <2>1, <3>2, <3>3 DEF Exists
      <3>5. CASE Exists(Cached)
        <4>1. Exists(Before(events[k + 1]))' /\ ~Exists(After(events[k + 1]))'
          BY <2>1, <2>3, <3>2, <3>5 DEF Exists
        <4> QED BY <3>4, <4>1
      <3>6. CASE ~Exists(Cached)
        <4>1. PICK j \in 1 .. k : j > i /\ Exists(Before(events[j])) /\ ~Exists(After(events[j]))
          BY <3>2, <3>4, <3>6 DEF EventsChained
        <4>2. Exists(Before(events[j]))' /\ ~Exists(After(events[j]))' /\ j \in 1 .. (k + 1)
          BY <2>1, <3>2, <4>1 DEF Exists
        <4> QED BY <4>1, <4>2
      <3> QED BY <3>5, <3>6
    <2> QED BY <1>2, <2>2, <2>3, Synced
  <1>3. CASE CreateFunc \/ DeleteFunc \/ UpdateFunc
    <2>1. events # <<>> /\ events' = Tail(events) /\ hist' = hist /\ seen' = seen
      BY <1>3 DEF CreateFunc, DeleteFunc, UpdateFunc, Handle, apiVars
    <2>2. PICK k \in Nat : k + 1 = Len(events)
      <3>1. Len(events) \in Nat /\ Len(events) # 0
        BY <2>1 DEF TypeOK
      <3>2. Len(events) - 1 \in Nat /\ (Len(events) - 1) + 1 = Len(events)
        BY <3>1
      <3> QED BY <3>2
    <2>3. /\ DOMAIN events = 1 .. (k + 1) /\ DOMAIN events' = 1 .. k
          /\ \A i \in 1 .. k : events'[i] = events[i + 1]
      BY <2>1, <2>2 DEF TypeOK
    <2>4. \A x : Before(x)' = Before(x) /\ After(x)' = After(x)
      BY <2>1 DEF Before, After
    <2>5. Cached' = Cached
      BY <2>1 DEF Cached
    <2> SUFFICES ASSUME NEW i \in 1 .. k, Exists(After(events[i]))', ~Exists(Cached)'
                 PROVE  \E j \in 1 .. k :
                           j > i /\ Exists(Before(events[j]))' /\ ~Exists(After(events[j]))'
      BY <2>3 DEF EventsChained
    <2>6. Exists(After(events[i + 1])) /\ ~Exists(Cached) /\ i + 1 \in 1 .. (k + 1)
      BY <2>3, <2>4, <2>5 DEF Exists
    <2>7. PICK j \in 1 .. (k + 1) : j > i + 1 /\ Exists(Before(events[j])) /\ ~Exists(After(events[j]))
      BY <2>3, <2>6 DEF EventsChained
    <2>8. PICK n \in 1 .. k : n > i /\ n + 1 = j
      <3>1. j - 1 \in 1 .. k /\ j - 1 > i /\ (j - 1) + 1 = j
        BY <2>7
      <3> QED BY <3>1
    <2>9. events'[n] = events[j]
      BY <2>3, <2>8
    <2>10. Exists(Before(events[n]))' /\ ~Exists(After(events[n]))'
      BY <2>4, <2>7, <2>9 DEF Exists
    <2> QED BY <2>8, <2>10
  <1>4. CASE UNCHANGED <<seen, events>>
    <2>1. Cached' = Cached /\ \A e \in ToSet(events) : Before(e)' = Before(e) /\ After(e)' = After(e)
      BY <1>0, <1>4, EventsKnown
    <2>2. \A i \in DOMAIN events : events[i] \in ToSet(events)
      BY DEF ToSet
    <2>3. \A i \in DOMAIN events : /\ Before(events[i])' = Before(events[i])
                                   /\ After(events[i])' = After(events[i])
      BY <1>4, <2>1, <2>2 DEF Before, After
    <2> QED BY <1>4, <2>1, <2>3 DEF EventsChained, Exists
  <1> QED
    BY <1>1, <1>2, <1>3, <1>4 DEF Next, Environment, ChangeInputs, ChangeManagedCluster, ExternalWrite,
       Watching, HandleInputs, RefreshManagedCluster, TimerFires, Reconcile, GetReplicated,
       ReconcileError, RecordDeleted, SkipForeign, StartCleanUp, DeleteReplicated, RecordDeletion,
       BuildReplicated, BuildFails, CreateReplicated, CreateReturned, UpdateReplicated,
       UpdateReturned, AtRest, vars, cacheVars

(* The predicates: the last word on an object that is gone is a Delete event,   *)
(* which passes while there is no marker.                                      *)
LEMMA HandleNeeded ==
    ASSUME TypeOK, EventsChained, TombstoneRevisited, EntryNeeded, CreateFunc \/ DeleteFunc \/ UpdateFunc
    PROVE  EntryNeeded'
  <1> SUFFICES ASSUME Unattended', pc' = "idle", inCluster', want' \in NotWanted
               PROVE  Exists(Cached)' \/ DeletePending'
    BY DEF EntryNeeded
  <1>1. PICK e, passes :
           /\ e = Head(events) /\ events # <<>> /\ Handle(e, passes)
           /\ \/ ~Exists(Before(e)) /\ Exists(After(e)) /\ passes = CreatePasses(e)
              \/ Exists(Before(e)) /\ ~Exists(After(e)) /\ passes = DeletePasses(e)
              \/ Exists(Before(e)) /\ Exists(After(e)) /\ passes = UpdatePasses(e)
    BY DEF CreateFunc, DeleteFunc, UpdateFunc
  <1>2. /\ UNCHANGED <<hist, seen, want, notify, inCluster, pc>> /\ events' = Tail(events)
    BY <1>1 DEF Handle, apiVars, inputVars, workerVars
  <1>3. ~passes /\ queue = "none"
    BY <1>1 DEF Handle, Unattended, Add
  <1>4. ~lost
    BY <1>1 DEF Handle, Unattended
  <1>5. Unattended /\ pc = "idle" /\ inCluster /\ want \in NotWanted
    BY <1>2, <1>3, <1>4 DEF Unattended
  <1>6. entry.kind # "deleted"
    BY <1>3, <1>5 DEF TombstoneRevisited
  <1>7. \A x : Before(x)' = Before(x) /\ After(x)' = After(x)
    BY <1>2 DEF Before, After
  <1>8. Cached' = Cached
    BY <1>2 DEF Cached
  <1>9. ToSet(events) = {e} \cup ToSet(events')
    BY <1>1, <1>2, ToSetTail DEF TypeOK
  <1>10. ~(Exists(Before(e)) /\ ~Exists(After(e)))
    BY <1>1, <1>3, <1>6 DEF DeletePasses
  <1>11. CASE entry # NoEntry
    <2>1. Exists(Cached) \/ DeletePending
      BY <1>5, <1>11 DEF EntryNeeded
    <2>2. DeletePending => DeletePending'
      BY <1>7, <1>9, <1>10 DEF DeletePending, Exists
    <2> QED BY <1>8, <2>1, <2>2 DEF Exists
  <1>12. CASE entry = NoEntry
    <2>1. Exists(After(e))
      BY <1>1, <1>10
    <2>2. /\ e = events[1] /\ 1 \in DOMAIN events
          /\ \A j \in DOMAIN events : j > 1 => events[j] \in ToSet(events')
      <3>1. /\ Len(events) \in Nat \ {0} /\ DOMAIN events = 1 .. Len(events) /\ e = events[1]
            /\ DOMAIN events' = 1 .. (Len(events) - 1)
            /\ \A i \in 1 .. (Len(events) - 1) : events'[i] = events[i + 1]
        BY <1>1, <1>2 DEF TypeOK
      <3>2. ASSUME NEW j \in 1 .. Len(events), j > 1 PROVE events[j] \in ToSet(events')
        <4>1. j - 1 \in DOMAIN events' /\ events'[j - 1] = events[j]
          BY <3>1, <3>2
        <4> QED BY <4>1 DEF ToSet
      <3> QED BY <3>1, <3>2
    <2>3. CASE Exists(Cached)
      BY <1>8, <2>3 DEF Exists
    <2>4. CASE ~Exists(Cached)
      <3>1. PICK j \in DOMAIN events : j > 1 /\ Exists(Before(events[j])) /\ ~Exists(After(events[j]))
        BY <2>1, <2>2, <2>4 DEF EventsChained
      <3>2. PICK x : x = events[j]
        OBVIOUS
      <3>3. x \in ToSet(events') /\ Exists(Before(x)) /\ ~Exists(After(x))
        BY <2>2, <3>1, <3>2
      <3> QED BY <1>7, <3>3 DEF DeletePending, Exists
    <2> QED BY <2>3, <2>4
  <1> QED BY <1>11, <1>12

LEMMA NeededStep ==
    ASSUME TypeOK, AttendedInv, NoClusterChange, TombstoneRevisited, EventsChained, EntryNeeded, [Next]_vars
    PROVE  EntryNeeded'
  <1> USE DEF inputVars, workerVars, cacheVars, mapVars, apiVars
  <1>0. Grows /\ inCluster' = inCluster /\ AddAfter # "none"
    BY HistoryGrows, ClusterStep, HelperTypes
  <1>b. want \in Contents => want \notin NotWanted
    BY ContentsAssumption
  <1>1. CASE UNCHANGED <<seen, events, entry, want, pc>> /\ (Unattended' => Unattended)
    <2>1. Cached' = Cached /\ \A e \in ToSet(events) : Before(e)' = Before(e) /\ After(e)' = After(e)
      BY <1>0, <1>1, EventsKnown
    <2>2. (Exists(Cached)' <=> Exists(Cached)) /\ (DeletePending' <=> DeletePending)
      BY <1>1, <2>1 DEF Exists, DeletePending
    <2> QED BY <1>0, <1>1, <2>2 DEF EntryNeeded
  <1>2. CASE ChangeInputs
    BY <1>2 DEF ChangeInputs, EntryNeeded, Unattended
  <1>3. CASE ChangeManagedCluster \/ ExternalWrite \/ HandleInputs \/ RefreshManagedCluster \/ TimerFires
             \/ AtRest \/ UNCHANGED vars
    <2>1. UNCHANGED <<seen, events, entry, want, pc>>
      BY <1>3 DEF ChangeManagedCluster, ExternalWrite, HandleInputs, RefreshManagedCluster, TimerFires,
                  AtRest, vars
    <2>2. Unattended' => Unattended
      BY <1>3 DEF ChangeManagedCluster, ExternalWrite, HandleInputs, RefreshManagedCluster, TimerFires,
                  AtRest, vars, Unattended, Add
    <2> QED BY <1>1, <2>1, <2>2
  <1>4. CASE Crash
    BY <1>4 DEF Crash, EntryNeeded
  <1>5. CASE InformerSync
    <2>1. UNCHANGED <<entry, want, pc>> /\ (Unattended' => Unattended) /\ hist' = hist
      BY <1>5 DEF InformerSync, Unattended
    <2>2. \A x : Before(x)' = Before(x) /\ After(x)' = After(x)
      BY <2>1 DEF Before, After
    <2>3. Exists(Cached) \/ DeletePending => Exists(Cached)' \/ DeletePending'
      <3>1. CASE events' = events /\ ~Exists(Cached) /\ ~Exists(Cached)'
        BY <2>2, <3>1 DEF DeletePending, Exists
      <3>2. ASSUME NEW e \in [old : 0 .. Len(hist), new : 1 .. Len(hist)],
                   events' = Append(events, e), Before(e) = Cached, After(e) = Cached'
            PROVE  Exists(Cached) \/ DeletePending => Exists(Cached)' \/ DeletePending'
        <4>1. PICK S : events \in Seq(S) /\ e \in S
          BY DEF TypeOK
        <4>2. ToSet(events') = ToSet(events) \cup {e}
          BY <3>2, <4>1, ToSetAppend
        <4>3. DeletePending => DeletePending'
          BY <2>2, <4>2 DEF DeletePending, Exists
        <4>4. Exists(Cached) /\ ~Exists(Cached)' => DeletePending'
          BY <2>2, <3>2, <4>2 DEF DeletePending, Exists
        <4> QED BY <4>3, <4>4
      <3> QED BY <1>5, <3>1, <3>2, Synced
    <2> QED BY <1>0, <2>1, <2>3 DEF EntryNeeded
  <1>6. CASE CreateFunc \/ DeleteFunc \/ UpdateFunc
    BY <1>6, HandleNeeded
  <1>7. CASE pc' # "idle"
    BY <1>7 DEF EntryNeeded
  <1>8. CASE ReconcileError \/ RecordDeletion \/ BuildFails
    BY <1>0, <1>8 DEF ReconcileError, RecordDeletion, BuildFails, Finish, RequeueTombstone, Unattended, EntryNeeded
  <1>9. CASE RecordDeleted
    BY <1>0, <1>9 DEF RecordDeleted, ClearedEntry, Finish, RequeueTombstone, Unattended, EntryNeeded
  <1>10. CASE SkipForeign
    BY <1>0, <1>10 DEF SkipForeign, NotOurs, EntryNeeded
  <1>11. CASE CreateReturned \/ UpdateReturned
    <2>1. /\ UNCHANGED <<want, notify, lost>> /\ pc \in {"creating", "updating"}
          /\ queue' = AddAfter \/ queue' = queue
      BY <1>11 DEF CreateReturned, UpdateReturned, Finish
    <2>2. Unattended' => want \in Contents
      BY <1>0, <2>1 DEF Unattended, AttendedInv, WorkSound
    <2> QED BY <1>b, <2>1, <2>2 DEF EntryNeeded
  <1> QED
    BY <1>2, <1>3, <1>4, <1>5, <1>6, <1>7, <1>8, <1>9, <1>10, <1>11
       DEF Next, Environment, Watching, Reconcile, GetReplicated, StartCleanUp, DeleteReplicated,
           BuildReplicated, CreateReplicated, UpdateReplicated

(* recordDeleted and the predicates: as long as the ManagedClusters stay as    *)
(* they are, once nothing is under way for a replicated policy that does not   *)
(* exist the ResourceVersions map has no entry for it, unless a change was     *)
(* skipped after the reconciler last looked.                                   *)
THEOREM EntriesAreRemoved ==
    ASSUME MaxClusters = 0
    PROVE  Spec => []MapBounded
  <1> DEFINE MInv == /\ TypeOK /\ ConvergeInv /\ NoClusterChange /\ TombstoneRevisited
                     /\ EventsChained /\ EntryNeeded
  <1>1. Init => MInv
    <2> SUFFICES ASSUME Init PROVE MInv
      OBVIOUS
    <2>1. NoClusterChange /\ TombstoneRevisited /\ EntryNeeded
      BY DEF Init, NoClusterChange, TombstoneRevisited, EntryNeeded, NoEntry
    <2>2. TypeOK /\ Started
      BY TypeInit DEF Init, Started
    <2> QED BY <2>1, <2>2, InitConverge, StartedChained
  <1>2. MInv /\ [Next]_vars => MInv'
    <2> SUFFICES ASSUME MInv, [Next]_vars PROVE MInv'
      OBVIOUS
    <2>1. HistSound /\ EntrySound /\ AttendedInv
      BY DEF ConvergeInv
    <2>2. TypeOK' /\ HistSound' /\ EntrySound' /\ AttendedInv'
      BY <2>1, TypeStep, HistStep, EntrySoundStep, AttendedStep
    <2>3. NoClusterChange' /\ TombstoneRevisited' /\ EventsChained'
      BY ClusterStep, TombstoneStep, ChainedStep
    <2>4. EntryNeeded'
      BY <2>1, NeededStep
    <2> QED BY <2>2, <2>3, <2>4 DEF ConvergeInv
  <1>3. MInv => MapBounded
    <2> SUFFICES ASSUME MInv, Quiescent, ~lost, inCluster, ~Exists(Live) PROVE entry = NoEntry
      BY DEF MapBounded
    <2>1. want \in NotWanted
      <3>1. Converged
        BY RestConverged DEF ConvergedUnlessLost
      <3> QED BY <3>1, ContentsAssumption DEF Converged, Exists, TypeOK
    <2>2. ~DeletePending /\ ~Exists(Cached)
      BY ToSetEmpty DEF DeletePending, Quiescent, Cached, Live
    <2> QED BY <2>1, <2>2 DEF EntryNeeded, Unattended, Quiescent
  <1> HIDE DEF MInv
  <1> QED BY <1>1, <1>2, <1>3, PTL DEF Spec

=============================================================================
