----------------------- MODULE PolicyAutomation_proofs -----------------------
(***************************************************************************)
(* What holds of the policy-automation controller for any number of        *)
(* clusters, delays, edits, failures and restarts: the jobs are not        *)
(* created twice, the delay is kept, and the modes once and everyEvent     *)
(* serve a violation.  All of it rests on what the copies of the           *)
(* PolicyAutomation that are on their way have to do with the one stored   *)
(* (CopiesInv).                                                            *)
(***************************************************************************)
EXTENDS PolicyAutomation, FiniteSetTheorems, SequenceTheorems, WellFoundedInduction, TLAPS

(* A reconcile that has begun has its copies, and entries for the clusters   *)
(* of an event job; the jobs can be counted.                                 *)
LocalsOK ==
    /\ pc # "idle" => loc \in Automation /\ lpol \in Policy
    /\ pc = "job" => \A c \in trimmed : loc.evs[c] \in ClusterEvent
    /\ IsFiniteSet(jobs)

TypeInv == AutomationTypeOK /\ LocalsOK

(* A copy is of a version and a generation of the past, is the               *)
(* PolicyAutomation stored if it is of its version, and has the spec stored  *)
(* if it is of its generation.                                               *)
Past(a) ==
    /\ a.ver <= pa.ver /\ a.gen <= pa.gen
    /\ a.gen = pa.gen => Spec(a) = Spec(pa)

Copy(a) == Past(a) /\ (a.ver = pa.ver => a = pa)

(* Of two versions one after the other, the later has a new generation if    *)
(* and only if it has a new spec.                                            *)
Consecutive(a, b) ==
    \/ b.gen = a.gen /\ Spec(b) = Spec(a)
    \/ b.gen = a.gen + 1 /\ Spec(b) # Spec(a)

StreamSound ==
    /\ Copy(cached) /\ \A i \in 1 .. Len(stream) : Copy(stream[i])
    /\ stream = <<>> => cached = pa
    /\ stream # <<>> => Consecutive(cached, stream[1]) /\ stream[Len(stream)] = pa
    /\ \A i \in 1 .. Len(stream) : i > 1 => Consecutive(stream[i - 1], stream[i])

(* The reconcile changes the entries of its copy only after it has chosen    *)
(* the clusters of an event job.                                             *)
LocalSound ==
    /\ pc # "idle" => Past(loc)
    /\ pc \notin {"idle", "job", "status"} => Copy(loc)
    /\ pc \in {"own", "switch"} /\ ~stale => loc.evs = pa.evs

CopiesInv == StreamSound /\ LocalSound

-----------------------------------------------------------------------------
(* A rerun was not done when the job for it is created.                      *)
RerunSound == pc = "manual" => ~MatchPAResourceV(loc.ver)

(* The status records the last event job, unless that was never stored.      *)
RunSound ==
    \A c \in Clusters :
        /\ lastRun[c] # NoEvent => lastRun[c] <= now
        /\ lastRun[c] # NoEvent /\ c \notin unsaved =>
              pa.evs[c] # NoEvent /\ pa.evs[c].start = RFC3339(lastRun[c])

(* The entries the status is about to be updated to: those of the clusters   *)
(* of the job are new, of the others only those are gone whose delay is over.*)
EntrySound ==
    \A c \in Clusters :
        /\ pc = "status" /\ c \in trimmed => loc.evs[c] # NoEvent /\ IsLast(c, loc.evs[c])
        /\ pc \in {"job", "status"} /\ c \notin trimmed /\ c \notin unsaved
           /\ lastRun[c] # NoEvent /\ loc.ver = pa.ver =>
              IF loc.evs[c] = NoEvent THEN Over(lastRun[c])
              ELSE loc.evs[c].start = RFC3339(lastRun[c])

DelayInv == RunSound /\ EntrySound /\ DelayRespected

-----------------------------------------------------------------------------
(* The informer of the policy ends with the policy, and tells of a change    *)
(* of the violations.                                                        *)
PolicyStreamSound ==
    /\ pstream = <<>> => pcached = policy
    /\ pstream # <<>> => pstream[Len(pstream)] = policy

NewsOfPolicy == \E i \in 1 .. Len(pstream) : pstream[i].violated # pcached.violated

(* A violation in mode once has its job, or the controller will look at it.  *)
OnceSound ==
    pa.mode = "once" /\ policy.violated # {} /\ (~skipped \/ pc \in {"own", "switch"}) =>
        \/ MatchPAGeneration(pa.gen)
        \/ queued \/ cached.gen # pa.gen \/ NewsOfPolicy
        \/ pc \in {"own", "switch", "once"} /\ loc.gen = pa.gen /\ lpol.violated # {}

OnceInv == PolicyStreamSound /\ OnceSound

(* A job of mode everyEvent is of a generation in that mode.                 *)
Belongs(j) ==
    /\ j.gen <= pa.gen
    /\ j.mode = "everyEvent" /\ j.gen = pa.gen => pa.mode = "everyEvent"

EventJobsSound ==
    /\ pc = "job" => loc.mode = "everyEvent"
    /\ \A j \in jobs : Belongs(j)

-----------------------------------------------------------------------------
(* Mode everyEvent.                                                          *)

(* The controller is going to look at c with the present mode and delay.     *)
NewsOf(c) == \E i \in 1 .. Len(pstream) : (c \in pstream[i].violated) # (c \in pcached.violated)
Behind(c) == queued \/ cached.gen # pa.gen \/ NewsOf(c)

(* A reconcile that looks at an old spec or does not know of a violation is  *)
(* followed by another one.                                                  *)
LookSound ==
    pc # "idle" =>
        /\ loc.gen # pa.gen => queued \/ cached.gen # pa.gen
        /\ pa.mode = "everyEvent" => \A c \in policy.violated \ lpol.violated : Behind(c)

(* How a reconcile got where it is; of the clusters found violated, those    *)
(* that no job is created for have an entry.                                 *)
PathSound ==
    /\ pc \in {"once", "disable"} => loc.mode = "once"
    /\ pc \in {"manual", "rerun"} => skipped
    /\ pc \in {"job", "status"} => \A c \in lpol.violated \ trimmed : loc.evs[c] # NoEvent

(* The entry of a cluster whose recovery the status knows of is gone or says *)
(* so, and no entry is of the future.                                        *)
Recovered(ev) == ev # NoEvent => ev.event > ev.start
NotAhead(ev)  == ev # NoEvent => ev.event <= RFC3339(now)

EntriesSound ==
    /\ \A c \in Clusters : NotAhead(pa.evs[c]) /\ (c \in noticed => Recovered(pa.evs[c]))
    /\ pc \in {"job", "status"} /\ loc.ver = pa.ver => \A c \in Clusters :
          NotAhead(loc.evs[c]) /\ (c \in noticed \ trimmed => Recovered(loc.evs[c]))
    /\ pc = "status" => trimmed \cap noticed = {}

(* What ServedUnlessUnnoticed asks for.                                      *)
Waiting(c) == (wake # 0 /\ pa.delay > 0) \/ (pa.delay = 0 /\ pa.evs[c] # NoEvent)

IdleSound ==
    pc = "idle" /\ pa.mode = "everyEvent" /\ ~skipped =>
        \A c \in pending \cap noticed : Behind(c) \/ Waiting(c)

ServedInv ==
    /\ pending \subseteq policy.violated
    /\ LookSound /\ PathSound /\ EntriesSound /\ IdleSound

-----------------------------------------------------------------------------
(* Types.                                                                   *)

(* A time in the status is at most the time and less than a second before it.*)
LEMMA Truncation ==
    ASSUME NEW t \in Nat
    PROVE  RFC3339(t) \in Nat /\ RFC3339(t) <= t /\ t < RFC3339(t) + Second
<1>1. Second \in Nat /\ Second > 0
  BY SecondAssumption
<1>2. t % Second \in Nat /\ t % Second < Second /\ t % Second <= t
  BY <1>1
<1> QED
  BY <1>1, <1>2 DEF RFC3339

(* Whole seconds, and two different ones.                                    *)
LEMMA Quotient ==
    ASSUME NEW t \in Nat
    PROVE  t \div Second \in Nat /\ RFC3339(t) = Second * (t \div Second)
<1>1. Second \in Nat /\ Second > 0
  BY SecondAssumption
<1>2. t = Second * (t \div Second) + (t % Second) /\ t \div Second \in Int /\ t % Second \in Int
  BY <1>1
<1>3. t \div Second \in Nat
  BY <1>1
<1>4. Second * (t \div Second) \in Int
  BY <1>1, <1>2
<1> QED
  BY <1>1, <1>2, <1>3, <1>4 DEF RFC3339

LEMMA SecondsApart ==
    ASSUME NEW a \in Nat, NEW b \in Nat, a < b
    PROVE  Second * a + Second <= Second * b
<1>1. Second \in Nat /\ Second > 0
  BY SecondAssumption
<1>2. PICK d \in Nat : b = a + 1 + d
  <2>1. b - a - 1 \in Nat /\ b = a + 1 + (b - a - 1)
    OBVIOUS
  <2> QED
    BY <2>1
<1>3. Second * (a + 1 + d) = Second * a + Second + Second * d
  BY <1>1
<1>4. Second * d \in Nat /\ Second * a \in Nat
  BY <1>1
<1>5. Second * b = Second * a + Second + Second * d
  BY <1>2, <1>3
<1> QED
  BY <1>1, <1>4, <1>5

(* A later time is not written as an earlier one.                            *)
LEMMA TruncationOrder ==
    ASSUME NEW t \in Nat, NEW u \in Nat, t <= u
    PROVE  RFC3339(t) <= RFC3339(u)
<1>1. Second \in Nat /\ Second > 0
  BY SecondAssumption
<1> DEFINE a == t \div Second
           b == u \div Second
<1>2. a \in Nat /\ b \in Nat /\ RFC3339(t) = Second * a /\ RFC3339(u) = Second * b
  BY Quotient
<1> HIDE DEF a, b
<1>3. RFC3339(t) \in Nat /\ RFC3339(u) \in Nat /\ RFC3339(t) <= t /\ u < RFC3339(u) + Second
  BY Truncation
<1>4. CASE b < a
  <2>1. RFC3339(u) + Second <= RFC3339(t)
    BY <1>2, <1>4, SecondsApart
  <2> QED
    BY <1>1, <1>3, <2>1
<1>5. CASE a = b
  BY <1>2, <1>3, <1>5
<1>6. CASE a < b
  <2>1. RFC3339(t) + Second <= RFC3339(u)
    BY <1>2, <1>6, SecondsApart
  <2> QED
    BY <1>1, <1>3, <2>1
<1> QED
  BY <1>2, <1>4, <1>5, <1>6

LEMMA MinOfNaturals ==
    ASSUME NEW S \in SUBSET Nat, S # {} PROVE Min(S) \in S
<1>1. IsWellFoundedOn(OpToRel(<, Nat), Nat)
  BY NatLessThanWellFounded
<1>2. PICK x \in S : \A y \in S : ~(<<y, x>> \in OpToRel(<, Nat))
  BY <1>1, WFMin
<1>3. ASSUME NEW y \in S PROVE x <= y
  <2>1. ~(y < x)
    <3> SUFFICES ASSUME y < x PROVE <<y, x>> \in OpToRel(<, Nat)
      BY <1>2
    <3> QED
      BY Zenon DEF OpToRel
  <2> QED
    BY <2>1
<1> QED
  BY <1>3 DEF Min

LEMMA FieldsType ==
    ASSUME NEW a \in Automation
    PROVE  /\ a.ver \in Nat /\ a.gen \in Nat /\ a.delay \in Nat
           /\ \A c \in Clusters : a.evs[c] \in ClusterEvent \cup {NoEvent}
BY DelaysAssumption DEF Automation

(* What the API server has after an Update of a.                             *)
LEMMA StoreFields ==
    ASSUME TypeInv, NEW a \in Automation, Store(a)
    PROVE  /\ pa' \in Automation
           /\ pa'.mode = a.mode /\ pa'.delay = a.delay /\ pa'.evs = a.evs
           /\ \/ UNCHANGED <<pa, stream>>
              \/ /\ pa'.ver = pa.ver + 1 /\ stream' = Append(stream, pa')
                 /\ Consecutive(pa, pa')
<1> DEFINE same == [a EXCEPT !.ver = pa.ver, !.gen = pa.gen] = pa
           new  == [a EXCEPT !.ver = pa.ver + 1,
                             !.gen = IF Spec(a) = Spec(pa) THEN pa.gen ELSE pa.gen + 1]
<1>1. pa \in Automation /\ pa.gen \in Nat /\ pa.ver \in Nat
  BY DEF TypeInv, AutomationTypeOK, Automation
<1>2. CASE same
  <2>1. pa' = pa /\ stream' = stream
    BY <1>2 DEF Store
  <2>2. a.mode = pa.mode /\ a.delay = pa.delay /\ a.evs = pa.evs
    BY <1>2 DEF Automation
  <2> QED
    BY <1>1, <2>1, <2>2
<1>3. CASE ~same
  <2>1. pa' = new /\ stream' = Append(stream, pa')
    BY <1>3 DEF Store
  <2>2. new \in Automation
    <3>1. (IF Spec(a) = Spec(pa) THEN pa.gen ELSE pa.gen + 1) \in Nat /\ pa.ver + 1 \in Nat
      BY <1>1
    <3> QED
      BY <3>1 DEF Automation
  <2>3. /\ new.mode = a.mode /\ new.delay = a.delay /\ new.evs = a.evs /\ new.ver = pa.ver + 1
        /\ new.gen = IF Spec(a) = Spec(pa) THEN pa.gen ELSE pa.gen + 1
    BY <1>1 DEF Automation
  <2> HIDE DEF new
  <2>4. Consecutive(pa, new)
    BY <2>3 DEF Consecutive, Spec
  <2> QED
    BY <2>1, <2>2, <2>3, <2>4
<1> QED
  BY <1>2, <1>3

LEMMA StoreType ==
    ASSUME TypeInv, NEW a \in Automation, Store(a)
    PROVE  pa' \in Automation /\ stream' \in Seq(Automation)
<1>1. stream \in Seq(Automation)
  BY DEF TypeInv, AutomationTypeOK
<1> QED
  BY <1>1, StoreFields

LEMMA UpdateType ==
    ASSUME TypeInv, NEW a \in Automation, UpdateOK(a) \/ UpdateFails(a)
    PROVE  pa' \in Automation /\ stream' \in Seq(Automation) /\ events' \in 0 .. MaxEvents
<1>1. events' \in 0 .. MaxEvents
  BY AutomationBounds DEF TypeInv, AutomationTypeOK, UpdateOK, UpdateFails, Event, NoEvents
<1>2. CASE Store(a)
  BY <1>1, <1>2, StoreType
<1>3. CASE UNCHANGED paVars
  BY <1>1, <1>3 DEF paVars, TypeInv, AutomationTypeOK
<1> QED
  BY <1>2, <1>3 DEF UpdateOK, UpdateFails

LEMMA JobType ==
    ASSUME TypeInv, loc \in Automation, NEW mode \in {"once", "everyEvent", "manual"},
           NEW cs \in SUBSET Clusters, AddJob(mode, cs)
    PROVE  jobs' \subseteq Job /\ IsFiniteSet(jobs') /\ pending' \subseteq Clusters
<1>1. IsFiniteSet(jobs) /\ jobs \subseteq Job /\ pending \subseteq Clusters
  BY DEF TypeInv, LocalsOK, AutomationTypeOK
<1>2. Cardinality(jobs) \in Nat
  BY <1>1, FS_CardinalityType
<1> DEFINE j == [id |-> IF mode = "everyEvent" THEN 0 ELSE Cardinality(jobs) + 1,
                 mode |-> mode, gen |-> loc.gen, ver |-> loc.ver]
<1>3. j \in Job
  BY <1>2 DEF Job, Automation
<1>4. jobs' = jobs \cup {j} /\ pending' = pending \ cs
  BY DEF AddJob
<1> HIDE DEF j
<1> QED
  BY <1>1, <1>3, <1>4, FS_AddElement

LEMMA AutomationInitType == AutomationInit => TypeInv
<1> SUFFICES ASSUME AutomationInit PROVE TypeInv
  OBVIOUS
<1>1. pa \in Automation
  BY DEF AutomationInit, Automation, Modes
<1>2. policy \in Policy
  BY DEF AutomationInit, Policy
<1>3. jobs \subseteq Job /\ IsFiniteSet(jobs)
  BY FS_EmptySet DEF AutomationInit
<1>4. stream \in Seq(Automation) /\ pstream \in Seq(Policy)
  BY DEF AutomationInit
<1>5. now \in 0 .. MaxTime /\ events \in 0 .. MaxEvents /\ wake \in Nat
  BY AutomationBounds, SecondAssumption DEF AutomationInit
<1>6. AutomationTypeOK
  BY <1>1, <1>2, <1>3, <1>4, <1>5 DEF AutomationInit, AutomationTypeOK
<1> QED
  BY <1>3, <1>6 DEF AutomationInit, TypeInv, LocalsOK

LEMMA EventType == TypeInv /\ (Event \/ NoEvents) => events' \in 0 .. MaxEvents
BY AutomationBounds DEF TypeInv, AutomationTypeOK, Event, NoEvents

(* The entries EveryEvent computes are entries.                              *)
LEMMA EntriesType ==
    ASSUME TypeInv, pc # "idle", NEW c \in Clusters
    PROVE  NextEvent(c) \in ClusterEvent \cup {NoEvent}
<1>1. /\ loc \in Automation /\ now \in Nat
      /\ loc.evs[c] \in ClusterEvent \cup {NoEvent}
  BY AutomationBounds DEF TypeInv, LocalsOK, AutomationTypeOK, Automation
<1>2. CASE loc.evs[c] = NoEvent
  BY <1>2 DEF NextEvent
<1>3. CASE loc.evs[c] # NoEvent
  <2>1. [loc.evs[c] EXCEPT !.event = RFC3339(now)] \in ClusterEvent
    BY <1>1, <1>3, Truncation DEF ClusterEvent
  <2> QED
    BY <1>1, <1>3, <2>1 DEF NextEvent
<1> QED
  BY <1>2, <1>3

LEMMA ReconcileType ==
    ASSUME TypeInv, Reconcile PROVE TypeInv'
<1> USE DEF TypeInv
<1>1. CASE Start
  BY <1>1, EventType DEF Start, AutomationTypeOK, LocalsOK, paVars, caches, policyVars
<1>2. CASE SetOwnerReferences
  <2> DEFINE a == [loc EXCEPT !.owned = TRUE]
  <2>1. a \in Automation
    BY <1>2 DEF SetOwnerReferences, LocalsOK, Automation
  <2>2. UpdateOK(a) \/ UpdateFails(a)
    BY <1>2 DEF SetOwnerReferences
  <2> HIDE DEF a
  <2>3. pa' \in Automation /\ stream' \in Seq(Automation) /\ events' \in 0 .. MaxEvents
    BY <2>1, <2>2, UpdateType
  <2> QED
    BY <1>2, <2>3
    DEF SetOwnerReferences, Retry, Return, AutomationTypeOK, LocalsOK, caches, policyVars
<1>3. CASE Rerun \/ PolicyDisabled \/ Disabled \/ Once
  BY <1>3, EventType
  DEF Rerun, PolicyDisabled, Disabled, Once, Active, Branch, Go, Done, Return, AutomationTypeOK,
      LocalsOK, paVars, caches, policyVars, locals
<1>4. CASE EveryEvent
  <2>1. pc = "switch" /\ loc \in Automation /\ lpol \in Policy /\ now \in Nat
    BY <1>4, AutomationBounds DEF EveryEvent, Active, Branch, LocalsOK, AutomationTypeOK
  <2>2. trimmed' \subseteq Clusters
    BY <1>4, <2>1 DEF EveryEvent, Targets, Policy
  <2> DEFINE first == [start |-> RFC3339(now), event |-> RFC3339(now)]
  <2>0. first \in ClusterEvent
    BY <2>1, Truncation DEF ClusterEvent
  <2>3. [c \in Clusters |-> IF c \in trimmed' THEN first ELSE NextEvent(c)]
           \in [Clusters -> ClusterEvent \cup {NoEvent}]
    BY <2>0, <2>1, EntriesType
  <2>4. loc' \in Automation /\ \A c \in trimmed' : loc'.evs[c] \in ClusterEvent
    <3>1. loc' \in Automation
      BY <1>4, <2>1, <2>3 DEF EveryEvent, Automation
    <3>2. loc'.evs = [c \in Clusters |-> IF c \in trimmed' THEN first ELSE NextEvent(c)]
      BY <1>4, <2>1 DEF EveryEvent, Automation
    <3> HIDE DEF first
    <3> QED
      BY <2>0, <2>2, <3>1, <3>2
  <2> QED
    BY <1>4, <2>1, <2>2, <2>4, EventType
    DEF EveryEvent, Active, Branch, AutomationTypeOK, LocalsOK, paVars, caches, policyVars
<1>5. CASE EventJob
  <2>1. pc = "job" /\ loc \in Automation /\ lpol \in Policy /\ now \in Nat /\ trimmed \subseteq Clusters
    BY <1>5, AutomationBounds DEF EventJob, LocalsOK, AutomationTypeOK
  <2>2. jobs' \subseteq Job /\ IsFiniteSet(jobs') /\ pending' \subseteq Clusters
    BY <1>5, <2>1, JobType DEF EventJob, CreateOK, LocalsOK, AutomationTypeOK
  <2>3. lastRun' \in [Clusters -> Nat \cup {NoEvent}]
        /\ unsaved' \subseteq Clusters /\ noticed' \subseteq Clusters
    BY <1>5, <2>1 DEF EventJob, Recorded, AutomationTypeOK
  <2>4. events' \in 0 .. MaxEvents
    BY <1>5, EventType DEF EventJob, CreateOK
  <2>5. (pc' = "idle" /\ loc' = NoCopy) \/ loc' \in Automation
    <3>1. ASSUME loc' = [loc EXCEPT !.evs = [c \in Clusters |->
                       IF c \in trimmed THEN [start |-> RFC3339(now), event |-> @[c].event] ELSE @[c]]]
          PROVE  loc' \in Automation
      <4>1. \A c \in trimmed : loc.evs[c].event \in Nat
        BY <2>1 DEF LocalsOK, ClusterEvent
      <4>2. [c \in Clusters |->
               IF c \in trimmed THEN [start |-> RFC3339(now), event |-> loc.evs[c].event]
               ELSE loc.evs[c]] \in [Clusters -> ClusterEvent \cup {NoEvent}]
        BY <2>1, <4>1, Truncation DEF Automation, ClusterEvent
      <4> QED
        BY <2>1, <3>1, <4>2 DEF Automation
    <3> QED
      BY <1>5, <3>1 DEF EventJob, Retry, Return
  <2> QED
    BY <1>5, <2>1, <2>2, <2>3, <2>4, <2>5
    DEF EventJob, Retry, Return, AutomationTypeOK, LocalsOK, paVars, caches, policyVars
<1>6. CASE UpdateStatus
  <2>1. pc = "status" /\ loc \in Automation /\ lpol \in Policy
    BY <1>6 DEF UpdateStatus, LocalsOK
  <2>2. pa' \in Automation /\ stream' \in Seq(Automation) /\ events' \in 0 .. MaxEvents
    BY <1>6, <2>1, UpdateType DEF UpdateStatus
  <2>3. lastRun' \in [Clusters -> Nat \cup {NoEvent}]
    BY <1>6 DEF UpdateStatus, AutomationTypeOK
  <2>4. unsaved' \subseteq Clusters /\ noticed' \subseteq Clusters
    BY <1>6 DEF UpdateStatus, AutomationTypeOK
  <2>5. wake' \in Nat
    <3> DEFINE ends == IF wake = 0 THEN DelayEnds ELSE DelayEnds \cup {wake}
    <3>1. DelayEnds \subseteq Nat
      <4> SUFFICES ASSUME NEW c \in Targets, loc.evs[c] # NoEvent PROVE DelayUntil(loc.evs[c]) \in Nat
        BY DEF DelayEnds
      <4>1. loc.evs[c] \in ClusterEvent /\ loc.delay \in Nat
        BY <2>1, DelaysAssumption DEF Targets, Policy, Automation
      <4> QED
        BY <4>1 DEF DelayUntil, ClusterEvent
    <3>2. ends \subseteq Nat
      BY <3>1 DEF AutomationTypeOK
    <3>3. ends # {} => Min(ends) \in Nat
      BY <3>2, MinOfNaturals
    <3>4. wake' = wake \/ wake' = IF ends = {} THEN 0 ELSE Min(ends)
      BY <1>6 DEF UpdateStatus
    <3> QED
      BY <3>3, <3>4 DEF AutomationTypeOK
  <2> QED
    BY <1>6, <2>1, <2>2, <2>3, <2>4, <2>5
    DEF UpdateStatus, Done, Retry, Return, AutomationTypeOK, LocalsOK, caches, policyVars
<1>7. CASE ManualJob \/ OnceJob
  <2>1. pc \in {"manual", "once"} /\ loc \in Automation /\ lpol \in Policy /\ Targets \subseteq Clusters
    BY <1>7 DEF ManualJob, OnceJob, LocalsOK, Targets, Policy
  <2>2. jobs' \subseteq Job /\ IsFiniteSet(jobs') /\ pending' \subseteq Clusters
    BY <1>7, <2>1, JobType DEF ManualJob, OnceJob, CreateOK, CreateFails, LocalsOK, AutomationTypeOK
  <2>3. events' \in 0 .. MaxEvents
    BY <1>7, EventType DEF ManualJob, OnceJob, CreateOK, CreateFails
  <2> QED
    BY <1>7, <2>1, <2>2, <2>3
    DEF ManualJob, OnceJob, Go, Done, Retry, Return, AutomationTypeOK, LocalsOK, paVars, caches,
        policyVars, locals
<1>8. CASE AfterJob
  <2>1. PICK a \in Automation : UpdateOK(a) \/ UpdateFails(a)
    <3>1. loc \in Automation
      BY <1>8 DEF AfterJob, LocalsOK
    <3>2. [loc EXCEPT !.rerun = FALSE] \in Automation /\ [loc EXCEPT !.mode = "disabled"] \in Automation
      BY <3>1 DEF Automation, Modes
    <3> QED
      BY <1>8, <3>2 DEF AfterJob
  <2>2. pa' \in Automation /\ stream' \in Seq(Automation) /\ events' \in 0 .. MaxEvents
    BY <2>1, UpdateType
  <2>3. Return /\ queued' \in BOOLEAN
    BY <1>8 DEF AfterJob, Done, Retry, AutomationTypeOK
  <2> QED
    BY <1>8, <2>2, <2>3 DEF AfterJob, Return, AutomationTypeOK, LocalsOK, caches, policyVars
<1> QED
  BY <1>1, <1>2, <1>3, <1>4, <1>5, <1>6, <1>7, <1>8 DEF Reconcile

(* Informers, the clock, the timer, users and restarts.                      *)
Surroundings == Notify \/ Tick \/ EditAutomation \/ ChangePolicy \/ Restart

LEMMA EditedType ==
    ASSUME TypeInv, EditAutomation
    PROVE  \E a \in Automation : Store(a) /\ a.evs = pa.evs
<1>1. pa \in Automation
  BY DEF TypeInv, AutomationTypeOK
<1>2. PICK a \in {[pa EXCEPT !.mode = m] : m \in Modes} \cup {[pa EXCEPT !.delay = d] : d \in Delays}
                 \cup {[pa EXCEPT !.rerun = TRUE]} : Store(a)
  BY DEF EditAutomation
<1>3. a \in Automation /\ a.evs = pa.evs
  BY <1>1, <1>2 DEF Automation
<1> QED
  BY <1>2, <1>3

LEMMA SurroundingsType ==
    ASSUME TypeInv, Surroundings PROVE TypeInv'
<1> USE DEF TypeInv
<1>1. CASE SeeAutomation
  <2>1. Head(stream) \in Automation /\ Tail(stream) \in Seq(Automation)
    BY <1>1 DEF SeeAutomation, AutomationTypeOK
  <2> QED
    BY <1>1, <2>1 DEF SeeAutomation, AutomationPasses, AutomationTypeOK, LocalsOK, policyVars,
                      reconciler, locals
<1>2. CASE SeePolicy
  <2>1. Head(pstream) \in Policy /\ Tail(pstream) \in Seq(Policy)
    BY <1>2 DEF SeePolicy, AutomationTypeOK
  <2> QED
    BY <1>2, <2>1 DEF SeePolicy, PolicyPasses, PolicyMapper, AutomationTypeOK, LocalsOK, paVars,
                      reconciler, locals
<1>3. CASE Timer
  BY <1>3 DEF Timer, AutomationTypeOK, LocalsOK, paVars, caches, policyVars, reconciler, locals
<1>4. CASE Tick
  BY <1>4, AutomationBounds
  DEF Tick, AutomationTypeOK, LocalsOK, paVars, caches, policyVars, locals
<1>5. CASE EditAutomation
  <2>1. pa' \in Automation /\ stream' \in Seq(Automation)
    BY <1>5, EditedType, StoreType
  <2> QED
    BY <1>5, <2>1, EventType
    DEF EditAutomation, AutomationTypeOK, LocalsOK, caches, policyVars, locals
<1>6. CASE ChangePolicy
  <2>1. PICK new \in {[policy EXCEPT !.disabled = ~@]} \cup {[policy EXCEPT !.violated = vs] :
                                                        vs \in SUBSET Clusters} :
          /\ policy' = new /\ pstream' = Append(pstream, new)
          /\ pending' = (pending \cap new.violated) \cup (new.violated \ policy.violated)
    BY <1>6 DEF ChangePolicy
  <2>2. new \in Policy /\ new.violated \subseteq Clusters
    BY <2>1 DEF AutomationTypeOK, Policy
  <2>3. pstream' \in Seq(Policy)
    BY <2>1, <2>2 DEF AutomationTypeOK
  <2> QED
    BY <1>6, <2>1, <2>2, <2>3, EventType
    DEF ChangePolicy, AutomationTypeOK, LocalsOK, paVars, caches, locals
<1>7. CASE Restart
  <2>1. stream' \in Seq(Automation) /\ pstream' \in Seq(Policy)
    BY <1>7 DEF Restart
  <2> QED
    BY <1>7, <2>1, EventType DEF Restart, Retry, Return, AutomationTypeOK, LocalsOK
<1> QED
  BY <1>1, <1>2, <1>3, <1>4, <1>5, <1>6, <1>7 DEF Surroundings, Notify

LEMMA AutomationNextSplit == AutomationNext <=> Reconcile \/ Surroundings
BY DEF AutomationNext, Surroundings

LEMMA TypeInvariant == AutomationSpec => []TypeInv
<1>1. TypeInv /\ UNCHANGED autoVars => TypeInv'
  BY DEF TypeInv, AutomationTypeOK, LocalsOK, autoVars
<1>2. TypeInv /\ [AutomationNext]_autoVars => TypeInv'
  BY <1>1, ReconcileType, SurroundingsType, AutomationNextSplit
<1> QED
  BY <1>2, AutomationInitType, PTL DEF AutomationSpec

(* AutomationTypeOK, for every set of clusters and delays and all bounds: no *)
(* time is computed from an entry that is none, no reconcile goes on without *)
(* its copies.                                                               *)
THEOREM AutomationTypeCorrect == AutomationSpec => []AutomationTypeOK
<1>1. TypeInv => AutomationTypeOK
  BY DEF TypeInv
<1> QED
  BY <1>1, TypeInvariant, PTL

-----------------------------------------------------------------------------
(* The copies of the PolicyAutomation.                                       *)

LEMMA AutomationInitCopies == AutomationInit => CopiesInv
<1> SUFFICES ASSUME AutomationInit PROVE CopiesInv
  OBVIOUS
<1>1. pa.ver = 1 /\ pa.gen = 1 /\ cached = pa /\ stream = <<>> /\ pc = "idle"
  BY DEF AutomationInit
<1>2. StreamSound
  BY <1>1 DEF StreamSound, Copy, Past
<1>3. LocalSound
  BY <1>1 DEF LocalSound
<1> QED
  BY <1>2, <1>3 DEF CopiesInv

(* An Update makes the earlier copies old.                                   *)
LEMMA StorePast ==
    ASSUME TypeInv, NEW a \in Automation, Store(a), NEW b \in Automation
    PROVE  /\ Past(b) => Past(b)' /\ (b.ver = pa'.ver => pa' = pa)
           /\ Copy(b) => Copy(b)'
           /\ Copy(pa)'
<1>1. pa \in Automation /\ pa' \in Automation
  BY StoreFields DEF TypeInv, AutomationTypeOK
<1>2. /\ pa.ver \in Nat /\ pa.gen \in Nat /\ b.ver \in Nat /\ b.gen \in Nat
      /\ pa'.ver \in Nat /\ pa'.gen \in Nat
  BY <1>1 DEF Automation
<1>3. Copy(pa)'
  BY <1>2 DEF Copy, Past
<1>4. CASE pa' = pa
  BY <1>3, <1>4 DEF Copy, Past
<1>5. CASE pa'.ver = pa.ver + 1 /\ Consecutive(pa, pa')
  BY <1>2, <1>3, <1>5 DEF Copy, Past, Consecutive
<1> QED
  BY <1>4, <1>5, StoreFields

LEMMA StoreStream ==
    ASSUME TypeInv, StreamSound, NEW a \in Automation, Store(a), cached' = cached
    PROVE  StreamSound'
<1>1. cached \in Automation /\ stream \in Seq(Automation) /\ pa' \in Automation
  BY StoreFields DEF TypeInv, AutomationTypeOK
<1>2. CASE UNCHANGED <<pa, stream>>
  BY <1>2 DEF StreamSound, Copy, Past
<1>3. CASE stream' = Append(stream, pa') /\ Consecutive(pa, pa')
  <2>1. /\ Len(stream) \in Nat /\ Len(stream') = Len(stream) + 1 /\ stream' # <<>>
        /\ \A i \in 1 .. Len(stream) : stream'[i] = stream[i] /\ stream[i] \in Automation
        /\ stream'[Len(stream')] = pa'
    BY <1>1, <1>3
  <2>2. Copy(cached)'
    BY <1>1, StorePast DEF StreamSound
  <2>3. ASSUME NEW i \in 1 .. Len(stream') PROVE Copy(stream[i])'
    <3>1. CASE i \in 1 .. Len(stream)
      <4>1. PICK b \in Automation : b = stream[i] /\ stream'[i] = b
        BY <2>1, <3>1
      <4>2. Copy(b)
        BY <3>1, <4>1 DEF StreamSound
      <4>3. Copy(b)'
        BY <4>2, StorePast
      <4> QED
        BY <4>1, <4>3 DEF Copy, Past
    <3>2. CASE i \notin 1 .. Len(stream)
      <4>1. stream'[i] = pa'
        BY <2>1, <3>2
      <4> QED
        BY <4>1, <1>1, StorePast DEF Copy, Past
    <3> QED
      BY <3>1, <3>2
  <2>4. Consecutive(cached', stream'[1])
    <3>1. CASE stream = <<>>
      BY <1>3, <2>1, <3>1 DEF StreamSound
    <3>2. CASE stream # <<>>
      <4>1. 1 \in 1 .. Len(stream)
        BY <1>1, <3>2
      <4> QED
        BY <2>1, <3>2, <4>1 DEF StreamSound
    <3> QED
      BY <3>1, <3>2
  <2>5. ASSUME NEW i \in 1 .. Len(stream'), i > 1 PROVE Consecutive(stream'[i - 1], stream'[i])
    <3>1. CASE i \in 1 .. Len(stream)
      <4>1. i - 1 \in 1 .. Len(stream)
        BY <2>1, <2>5, <3>1
      <4> QED
        BY <2>1, <2>5, <3>1, <4>1 DEF StreamSound
    <3>2. CASE i \notin 1 .. Len(stream)
      <4>1. i - 1 = Len(stream) /\ i - 1 \in 1 .. Len(stream) /\ stream # <<>> /\ i = Len(stream')
        BY <2>1, <2>5, <3>2
      <4>2. stream'[i - 1] = pa /\ stream'[i] = pa'
        BY <2>1, <4>1 DEF StreamSound
      <4> QED
        BY <1>3, <4>2
    <3> QED
      BY <3>1, <3>2
  <2> QED
    BY <2>1, <2>2, <2>3, <2>4, <2>5 DEF StreamSound, Copy, Past
<1> QED
  BY <1>2, <1>3, StoreFields

LEMMA StreamElsewhere ==
    ASSUME StreamSound, UNCHANGED <<pa, stream, cached>> PROVE StreamSound'
BY DEF StreamSound, Copy, Past

LEMMA UpdateStream ==
    ASSUME TypeInv, StreamSound, NEW a \in Automation, UpdateOK(a) \/ UpdateFails(a),
           cached' = cached
    PROVE  StreamSound'
BY StoreStream, StreamElsewhere DEF UpdateOK, UpdateFails, paVars

(* An Update that is not refused, of a copy not changed in its entries.      *)
LEMMA UnrefusedCopy ==
    ASSUME LocalSound, pc \notin {"idle", "job", "status"}, ~Conflict PROVE loc = pa
BY DEF LocalSound, Copy, Conflict

LEMMA ReconcileCopies ==
    ASSUME TypeInv, CopiesInv, Reconcile PROVE CopiesInv'
<1> USE DEF CopiesInv
<1>1. CASE Start
  <2>1. UNCHANGED <<pa, stream, cached>>
    BY <1>1 DEF Start, paVars, caches
  <2>2. LocalSound'
    BY <1>1, <2>1 DEF Start, LocalSound, StreamSound, Copy, Past
  <2> QED
    BY <2>1, <2>2, StreamElsewhere
<1>2. CASE SetOwnerReferences
  <2>1. PICK a \in Automation : UpdateOK(a) \/ UpdateFails(a)
    <3>1. [loc EXCEPT !.owned = TRUE] \in Automation
      BY <1>2 DEF SetOwnerReferences, TypeInv, LocalsOK, Automation
    <3> QED
      BY <1>2, <3>1 DEF SetOwnerReferences
  <2>2. StreamSound'
    BY <1>2, <2>1, UpdateStream DEF SetOwnerReferences, caches
  <2>3. CASE loc' = pa' /\ pc' = "switch"
    <3>1. pa' \in Automation /\ pa'.ver <= pa'.ver /\ pa'.gen <= pa'.gen
      BY <2>1, UpdateType DEF Automation
    <3> QED
      BY <2>2, <2>3, <3>1 DEF LocalSound, Copy, Past
  <2>4. CASE pc' = "idle"
    BY <2>2, <2>4 DEF LocalSound
  <2> QED
    BY <1>2, <2>3, <2>4 DEF SetOwnerReferences, Retry, Return
<1>3. CASE Rerun \/ PolicyDisabled \/ Disabled \/ Once
  <2>1. /\ UNCHANGED <<pa, stream, cached>> /\ pc = "switch"
        /\ pc' = "idle" \/ (UNCHANGED loc /\ pc' \in {"manual", "once"})
    BY <1>3 DEF Rerun, PolicyDisabled, Disabled, Once, Active, Branch, Go, Done, Return, paVars,
                caches, locals
  <2>2. LocalSound'
    BY <2>1 DEF LocalSound, Copy, Past
  <2> QED
    BY <2>1, <2>2, StreamElsewhere
<1>4. CASE EveryEvent
  <2>1. /\ UNCHANGED <<pa, stream, cached>> /\ pc = "switch" /\ pc' \in {"job", "status"}
        /\ \E e : loc' = [loc EXCEPT !.evs = e]
    BY <1>4 DEF EveryEvent, Active, Branch, paVars, caches
  <2>2. loc \in Automation
    BY <2>1 DEF TypeInv, LocalsOK
  <2>3. loc'.ver = loc.ver /\ loc'.gen = loc.gen /\ Spec(loc') = Spec(loc)
    BY <2>1, <2>2 DEF Automation, Spec
  <2>4. LocalSound'
    BY <2>1, <2>3 DEF LocalSound, Copy, Past
  <2> QED
    BY <2>1, <2>4, StreamElsewhere
<1>5. CASE EventJob
  <2>1. /\ UNCHANGED <<pa, stream, cached>> /\ pc = "job"
        /\ pc' = "idle" \/ (pc' = "status" /\ \E e : loc' = [loc EXCEPT !.evs = e])
    BY <1>5 DEF EventJob, Retry, Return, paVars, caches
  <2>2. loc \in Automation
    BY <2>1 DEF TypeInv, LocalsOK
  <2>3. pc' = "status" => loc'.ver = loc.ver /\ loc'.gen = loc.gen /\ Spec(loc') = Spec(loc)
    BY <2>1, <2>2 DEF Automation, Spec
  <2>4. LocalSound'
    BY <2>1, <2>3 DEF LocalSound, Past
  <2> QED
    BY <2>1, <2>4, StreamElsewhere
<1>6. CASE UpdateStatus \/ AfterJob
  <2>1. PICK a \in Automation : UpdateOK(a) \/ UpdateFails(a)
    <3>1. loc \in Automation
      BY <1>6 DEF UpdateStatus, AfterJob, TypeInv, LocalsOK
    <3>2. [loc EXCEPT !.rerun = FALSE] \in Automation /\ [loc EXCEPT !.mode = "disabled"] \in Automation
      BY <3>1 DEF Automation, Modes
    <3> QED
      BY <1>6, <3>1, <3>2 DEF UpdateStatus, AfterJob
  <2>2. cached' = cached /\ pc' = "idle"
    BY <1>6 DEF UpdateStatus, AfterJob, Done, Retry, Return, caches
  <2> QED
    BY <2>1, <2>2, UpdateStream DEF LocalSound
<1>7. CASE ManualJob \/ OnceJob
  <2>1. /\ UNCHANGED <<pa, stream, cached>> /\ pc \in {"manual", "once"}
        /\ pc' = "idle" \/ (UNCHANGED loc /\ pc' \in {"rerun", "disable"})
    BY <1>7 DEF ManualJob, OnceJob, Go, Done, Retry, Return, paVars, caches, locals
  <2>2. LocalSound'
    BY <2>1 DEF LocalSound, Copy, Past
  <2> QED
    BY <2>1, <2>2, StreamElsewhere
<1> QED
  BY <1>1, <1>2, <1>3, <1>4, <1>5, <1>6, <1>7 DEF Reconcile

LEMMA SurroundingsCopies ==
    ASSUME TypeInv, CopiesInv, Surroundings PROVE CopiesInv'
<1> USE DEF CopiesInv
<1>1. CASE SeeAutomation
  <2>1. /\ stream \in Seq(Automation) /\ stream # <<>>
        /\ cached' = Head(stream) /\ stream' = Tail(stream)
        /\ UNCHANGED <<pa, pc, loc, stale>>
    BY <1>1 DEF SeeAutomation, TypeInv, AutomationTypeOK, reconciler, locals
  <2>2. /\ Len(stream) \in Nat \ {0} /\ Len(stream') = Len(stream) - 1
        /\ cached' = stream[1]
        /\ \A i \in 1 .. Len(stream') : stream'[i] = stream[i + 1]
    BY <2>1
  <2>3. Copy(cached)' /\ \A i \in 1 .. Len(stream') : Copy(stream[i])'
    BY <2>1, <2>2 DEF StreamSound, Copy, Past
  <2>4. ASSUME NEW i \in 1 .. Len(stream'), i > 1 PROVE Consecutive(stream'[i - 1], stream'[i])
    <3>1. i + 1 \in 1 .. Len(stream) /\ (i + 1) - 1 = i /\ i + 1 > 1
          /\ i - 1 \in 1 .. Len(stream') /\ (i - 1) + 1 = i
      BY <2>2, <2>4
    <3>2. Consecutive(stream[i], stream[i + 1])
      BY <3>1 DEF StreamSound
    <3> QED
      BY <2>2, <3>1, <3>2
  <2>5. CASE Len(stream) = 1
    <3>1. stream' = <<>> /\ cached' = pa'
      BY <2>1, <2>2, <2>5 DEF StreamSound
    <3> QED
      BY <2>1, <2>3, <2>4, <3>1 DEF StreamSound, LocalSound, Copy, Past
  <2>6. CASE Len(stream) # 1
    <3>1. /\ Len(stream') \in 1 .. Len(stream') /\ stream'[Len(stream')] = stream[Len(stream)]
          /\ stream' # <<>> /\ stream'[1] = stream[2] /\ 2 \in 1 .. Len(stream)
      BY <2>2, <2>6
    <3>2. Consecutive(stream[1], stream[2])
      BY <3>1 DEF StreamSound
    <3>3. StreamSound'
      BY <2>1, <2>2, <2>3, <2>4, <3>1, <3>2 DEF StreamSound
    <3> QED
      BY <2>1, <3>3 DEF LocalSound, Copy, Past
  <2> QED
    BY <2>5, <2>6
<1>2. CASE SeePolicy \/ Timer \/ Tick \/ ChangePolicy
  <2>1. UNCHANGED <<pa, stream, cached, pc, loc, stale>>
    BY <1>2 DEF SeePolicy, Timer, Tick, ChangePolicy, paVars, caches, reconciler, locals
  <2> QED
    BY <2>1, StreamElsewhere DEF LocalSound, Copy, Past
<1>3. CASE EditAutomation
  <2>1. PICK a \in Automation : Store(a) /\ a.evs = pa.evs
    BY <1>3, EditedType
  <2>2. UNCHANGED <<cached, pc, loc, stale>> /\ pa'.evs = pa.evs
    BY <1>3, <2>1, StoreFields DEF EditAutomation, caches, locals
  <2>3. StreamSound'
    BY <2>1, <2>2, StoreStream
  <2>4. LocalSound'
    <3>1. CASE pc = "idle"
      BY <2>2, <3>1 DEF LocalSound
    <3>2. CASE pc # "idle"
      <4>1. PICK b \in Automation : b = loc
        BY <3>2 DEF TypeInv, LocalsOK
      <4>2. (Past(b) => Past(b)') /\ (Copy(b) => Copy(b)')
        BY <2>1, StorePast
      <4> QED
        BY <2>2, <4>1, <4>2 DEF LocalSound, Copy, Past
    <3> QED
      BY <3>1, <3>2
  <2> QED
    BY <2>3, <2>4
<1>4. CASE Restart
  <2>1. pa' = pa /\ cached' = pa /\ stream' = <<>> /\ pc' = "idle"
    BY <1>4 DEF Restart, Retry, Return
  <2>2. pa.ver <= pa.ver /\ pa.gen <= pa.gen
    BY DEF TypeInv, AutomationTypeOK, Automation
  <2> QED
    BY <2>1, <2>2 DEF StreamSound, LocalSound, Copy, Past
<1> QED
  BY <1>1, <1>2, <1>3, <1>4 DEF Surroundings, Notify

LEMMA CopiesInvariant == AutomationSpec => []CopiesInv
<1>1. CopiesInv /\ UNCHANGED autoVars => CopiesInv'
  BY StreamElsewhere DEF CopiesInv, LocalSound, Copy, Past, autoVars
<1>2. TypeInv /\ CopiesInv /\ [AutomationNext]_autoVars => CopiesInv'
  BY <1>1, ReconcileCopies, SurroundingsCopies, AutomationNextSplit
<1> QED
  BY <1>2, AutomationInitCopies, TypeInvariant, PTL DEF AutomationSpec

-----------------------------------------------------------------------------
(* The jobs.                                                                 *)

JobsInv == AtMostOneJob /\ RerunSound

(* A job in mode once is the first of its generation, a manual one the first *)
(* of its version.                                                           *)
LEMMA AddJobOnce ==
    ASSUME AtMostOneJob, NEW mode, NEW cs, AddJob(mode, cs),
           mode = "once" => ~MatchPAGeneration(loc.gen),
           mode = "manual" => ~MatchPAResourceV(loc.ver)
    PROVE  AtMostOneJob'
<1> DEFINE new == [id |-> IF mode = "everyEvent" THEN 0 ELSE Cardinality(jobs) + 1,
                   mode |-> mode, gen |-> loc.gen, ver |-> loc.ver]
<1>1. jobs' = jobs \cup {new} /\ new.mode = mode /\ new.gen = loc.gen /\ new.ver = loc.ver
  BY DEF AddJob
<1> HIDE DEF new
<1>2. \A j \in jobs : j.mode = new.mode =>
        /\ j.mode = "once" => j.gen # new.gen
        /\ j.mode = "manual" => j.ver # new.ver
  BY <1>1 DEF MatchPAGeneration, MatchPAResourceV
<1> QED
  BY <1>1, <1>2 DEF AtMostOneJob

LEMMA JobsStep ==
    ASSUME JobsInv, [AutomationNext]_autoVars PROVE JobsInv'
<1> USE DEF JobsInv
<1>1. CASE ManualJob
  <2>1. pc = "manual" /\ pc' # "manual"
    BY <1>1 DEF ManualJob, Go, Retry, Return
  <2>2. CASE UNCHANGED jobs
    BY <2>1, <2>2 DEF AtMostOneJob, RerunSound
  <2>3. CASE AddJob("manual", Targets)
    BY <2>1, <2>3, AddJobOnce DEF RerunSound
  <2> QED
    BY <1>1, <2>2, <2>3 DEF ManualJob, CreateOK, CreateFails
<1>2. CASE OnceJob
  <2>1. pc' # "manual"
    BY <1>2 DEF OnceJob, Go, Done, Retry, Return
  <2>2. CASE UNCHANGED jobs
    BY <2>1, <2>2 DEF AtMostOneJob, RerunSound
  <2>3. CASE AddJob("once", Targets) /\ ~OnceDone
    BY <2>1, <2>3, AddJobOnce DEF RerunSound, OnceDone
  <2> QED
    BY <1>2, <2>2, <2>3 DEF OnceJob, CreateOK, CreateFails
<1>3. CASE EventJob
  <2>1. pc' # "manual"
    BY <1>3 DEF EventJob, Retry, Return
  <2>2. CASE UNCHANGED jobs
    BY <2>1, <2>2 DEF AtMostOneJob, RerunSound
  <2>3. CASE AddJob("everyEvent", trimmed)
    BY <2>1, <2>3, AddJobOnce DEF RerunSound
  <2> QED
    BY <1>3, <2>2, <2>3 DEF EventJob, CreateOK
<1>4. CASE Rerun
  BY <1>4 DEF Rerun, RerunDone, Branch, Go, Done, Return, locals, AtMostOneJob, RerunSound,
              MatchPAResourceV
<1>5. CASE Start \/ SetOwnerReferences \/ PolicyDisabled \/ Disabled \/ Once \/ EveryEvent
           \/ AfterJob \/ UpdateStatus \/ Restart
  <2>1. jobs' = jobs /\ pc' # "manual"
    BY <1>5 DEF Start, SetOwnerReferences, PolicyDisabled, Disabled, Once, EveryEvent, Active,
                Branch, Go, AfterJob, UpdateStatus, Restart, Done, Retry, Return
  <2> QED
    BY <2>1 DEF AtMostOneJob, RerunSound
<1>6. CASE Notify \/ Tick \/ EditAutomation \/ ChangePolicy
  <2>1. UNCHANGED <<jobs, pc, loc>>
    BY <1>6 DEF Notify, SeeAutomation, SeePolicy, Timer, Tick, EditAutomation, ChangePolicy,
                reconciler, locals
  <2> QED
    BY <2>1 DEF AtMostOneJob, RerunSound, MatchPAResourceV
<1>7. CASE UNCHANGED autoVars
  BY <1>7 DEF autoVars, AtMostOneJob, RerunSound, MatchPAResourceV
<1> QED
  BY <1>1, <1>2, <1>3, <1>4, <1>5, <1>6, <1>7 DEF AutomationNext, Reconcile

(* AtMostOneJob, for all bounds: however late the caches are and wherever a  *)
(* reconcile fails, no generation has two jobs of mode once and no           *)
(* resourceVersion two of the rerun annotation.                              *)
THEOREM JobsNotRepeated == AutomationSpec => []AtMostOneJob
<1>1. AutomationInit => JobsInv
  BY DEF AutomationInit, JobsInv, AtMostOneJob, RerunSound
<1>2. JobsInv /\ [AutomationNext]_autoVars => JobsInv'
  BY JobsStep
<1> QED
  BY <1>1, <1>2, PTL DEF AutomationSpec, JobsInv

-----------------------------------------------------------------------------
(* The delay.                                                                *)

LEMMA AutomationInitDelay == AutomationInit => DelayInv
<1> SUFFICES ASSUME AutomationInit PROVE DelayInv
  OBVIOUS
<1>1. RunSound
  BY DEF AutomationInit, RunSound
<1>2. EntrySound /\ DelayRespected
  BY DEF AutomationInit, EntrySound, DelayRespected
<1> QED
  BY <1>1, <1>2 DEF DelayInv

(* Steps that leave the entries and the reconcile alone.                     *)
LEMMA DelayElsewhere ==
    ASSUME TypeInv, DelayInv, CopiesInv, pa'.evs = pa.evs, now' \in Nat, now <= now',
           pa' = pa \/ pa'.ver = pa.ver + 1,
           UNCHANGED <<lastRun, unsaved>>,
           UNCHANGED <<pc, loc, trimmed, stale>> \/ pc' \notin {"job", "status"}
    PROVE  DelayInv'
<1>1. /\ now \in Nat /\ lastRun \in [Clusters -> Nat \cup {NoEvent}]
      /\ pc # "idle" => loc.ver \in Nat /\ loc.delay \in Nat /\ loc.ver <= pa.ver
      /\ pa.ver \in Nat
  <2>1. now \in Nat /\ lastRun \in [Clusters -> Nat \cup {NoEvent}] /\ pa \in Automation
    BY AutomationBounds DEF TypeInv, AutomationTypeOK
  <2>2. pc # "idle" => loc \in Automation /\ loc.ver <= pa.ver
    BY DEF TypeInv, LocalsOK, CopiesInv, LocalSound, Past
  <2> QED
    BY <2>1, <2>2, FieldsType
<1>2. RunSound'
  BY <1>1 DEF DelayInv, RunSound
<1>3. CASE pc' \notin {"job", "status"}
  BY <1>2, <1>3 DEF DelayInv, EntrySound, DelayRespected
<1>4. CASE UNCHANGED <<pc, loc, trimmed, stale>> /\ pc \in {"job", "status"}
  <2>1. loc.ver = pa'.ver => loc.ver = pa.ver
    BY <1>1, <1>4
  <2>2. EntrySound'
    <3> SUFFICES ASSUME NEW c \in Clusters
                 PROVE  /\ pc = "status" /\ c \in trimmed =>
                              loc.evs[c] # NoEvent /\ IsLast(c, loc.evs[c])
                        /\ c \notin trimmed /\ c \notin unsaved
                           /\ lastRun[c] # NoEvent /\ loc.ver = pa'.ver =>
                              IF loc.evs[c] = NoEvent THEN now' + Second > lastRun[c] + loc.delay
                              ELSE loc.evs[c].start = RFC3339(lastRun[c])
      BY <1>4 DEF EntrySound, IsLast, Over
    <3>1. lastRun[c] # NoEvent => lastRun[c] \in Nat
      BY <1>1
    <3> QED
      BY <1>1, <1>4, <2>1, <3>1, SecondAssumption DEF DelayInv, EntrySound, Over
  <2>3. DelayRespected'
    <3> SUFFICES ASSUME NEW c \in trimmed, pc = "job", c \notin unsaved, ~stale, lastRun[c] # NoEvent
                 PROVE  now' + Second > lastRun[c] + loc.delay
      BY <1>4 DEF DelayRespected, Over
    <3>1. c \in Clusters
      BY DEF TypeInv, AutomationTypeOK
    <3>2. lastRun[c] \in Nat
      BY <1>1, <3>1
    <3> QED
      BY <1>1, <1>4, <3>2, SecondAssumption DEF DelayInv, DelayRespected, Over
  <2> QED
    BY <1>2, <2>2, <2>3 DEF DelayInv
<1> QED
  BY <1>3, <1>4

(* What EveryEvent makes of the entry of the last job of a cluster.          *)
LEMMA NextEntry ==
    ASSUME TypeInv, pc = "switch", NEW c \in Clusters, loc.evs[c] # NoEvent, loc.evs[c].start <= now
    PROVE  /\ NextEvent(c) = NoEvent => loc.evs[c].start + loc.delay <= now
           /\ NextEvent(c) # NoEvent => NextEvent(c).start = loc.evs[c].start
<1>1. /\ loc \in Automation /\ now \in Nat /\ loc.evs[c] \in ClusterEvent /\ loc.delay \in Nat
  <2>1. loc \in Automation /\ now \in Nat
    BY AutomationBounds DEF TypeInv, LocalsOK, AutomationTypeOK
  <2> QED
    BY <2>1, FieldsType
<1>2. /\ loc.evs[c].start \in Nat
      /\ [loc.evs[c] EXCEPT !.event = RFC3339(now)] \in ClusterEvent
      /\ [loc.evs[c] EXCEPT !.event = RFC3339(now)].start = loc.evs[c].start
  BY <1>1, Truncation DEF ClusterEvent
<1>3. [loc.evs[c] EXCEPT !.event = RFC3339(now)] # NoEvent
  BY <1>2, EventAssumption
<1>4. CASE c \in Targets
  BY <1>1, <1>2, <1>3, <1>4 DEF NextEvent, DelayUntil
<1>5. CASE c \notin Targets
  BY <1>1, <1>2, <1>3, <1>5 DEF NextEvent, DelayUntil
<1> QED
  BY <1>4, <1>5

LEMMA ReconcileDelay ==
    ASSUME TypeInv, CopiesInv, DelayInv, Reconcile PROVE DelayInv'
<1>0. /\ now \in Nat /\ now <= now /\ lastRun \in [Clusters -> Nat \cup {NoEvent}]
      /\ pa \in Automation
  BY AutomationBounds DEF TypeInv, AutomationTypeOK
<1>1. CASE Start \/ Rerun \/ PolicyDisabled \/ Disabled \/ Once \/ ManualJob \/ OnceJob
  <2>1. UNCHANGED <<pa, now, lastRun, unsaved>> /\ pc' \notin {"job", "status"}
    BY <1>1 DEF Start, Rerun, PolicyDisabled, Disabled, Once, Active, Branch, ManualJob, OnceJob,
                Go, Done, Retry, Return, paVars
  <2> QED
    BY <1>0, <2>1, DelayElsewhere
<1>2. CASE SetOwnerReferences \/ AfterJob
  <2>1. /\ UNCHANGED <<now, lastRun, unsaved>> /\ pc' \notin {"job", "status"}
        /\ pc \notin {"idle", "job", "status"} /\ loc \in Automation
    BY <1>2 DEF SetOwnerReferences, AfterJob, Done, Retry, Return, TypeInv, LocalsOK
  <2>2. PICK a \in Automation : a.evs = loc.evs /\ (UpdateOK(a) \/ UpdateFails(a))
    <3>1. /\ [loc EXCEPT !.owned = TRUE] \in Automation
          /\ [loc EXCEPT !.owned = TRUE].evs = loc.evs
          /\ [loc EXCEPT !.rerun = FALSE] \in Automation
          /\ [loc EXCEPT !.rerun = FALSE].evs = loc.evs
          /\ [loc EXCEPT !.mode = "disabled"] \in Automation
          /\ [loc EXCEPT !.mode = "disabled"].evs = loc.evs
      BY <2>1 DEF Automation, Modes
    <3> QED
      BY <1>2, <3>1 DEF SetOwnerReferences, AfterJob
  <2>3. pa'.evs = pa.evs /\ (pa' = pa \/ pa'.ver = pa.ver + 1)
    <3>1. CASE ~Conflict /\ Store(a)
      <4>1. loc = pa
        BY <2>1, <3>1, UnrefusedCopy DEF CopiesInv
      <4> QED
        BY <2>2, <3>1, <4>1, StoreFields
    <3>2. CASE pa' = pa
      BY <3>2
    <3> QED
      BY <2>2, <3>1, <3>2 DEF UpdateOK, UpdateFails, paVars
  <2> QED
    BY <1>0, <2>1, <2>3, DelayElsewhere
<1>3. CASE EveryEvent
  <2>1. /\ UNCHANGED <<pa, now, lastRun, unsaved, stale>> /\ pc = "switch"
        /\ trimmed' = {c \in Targets : NextEvent(c) = NoEvent}
        /\ pc' = IF trimmed' = {} THEN "status" ELSE "job"
        /\ loc' = [loc EXCEPT !.evs = [c \in Clusters |->
                     IF c \in trimmed' THEN [start |-> RFC3339(now), event |-> RFC3339(now)]
                     ELSE NextEvent(c)]]
    BY <1>3 DEF EveryEvent, Active, Branch, paVars
  <2>2. loc \in Automation /\ Targets \subseteq Clusters
    BY <2>1 DEF TypeInv, LocalsOK, Targets, Policy
  <2>3. /\ loc'.ver = loc.ver /\ loc'.delay = loc.delay
        /\ \A c \in Clusters : c \notin trimmed' => loc'.evs[c] = NextEvent(c)
    BY <2>1, <2>2 DEF Automation
  <2>4. ASSUME NEW c \in Clusters, c \notin unsaved, lastRun[c] # NoEvent, loc.evs = pa.evs
        PROVE  /\ NextEvent(c) = NoEvent => Over(lastRun[c])
               /\ NextEvent(c) # NoEvent => NextEvent(c).start = RFC3339(lastRun[c])
    <3>1. loc.evs[c] # NoEvent /\ loc.evs[c].start = RFC3339(lastRun[c]) /\ lastRun[c] <= now
      BY <2>4 DEF DelayInv, RunSound
    <3>2. lastRun[c] \in Nat /\ loc.delay \in Nat /\ Second \in Nat
      BY <1>0, <2>2, <2>4, FieldsType, SecondAssumption
    <3>3. /\ loc.evs[c].start \in Nat /\ loc.evs[c].start <= now
          /\ lastRun[c] < loc.evs[c].start + Second
      <4>1. PICK t \in Nat : t = lastRun[c]
        BY <3>2
      <4> QED
        BY <1>0, <3>1, <3>2, <4>1, Truncation
    <3>4. /\ NextEvent(c) = NoEvent => loc.evs[c].start + loc.delay <= now
          /\ NextEvent(c) # NoEvent => NextEvent(c).start = loc.evs[c].start
      BY <2>1, <3>1, <3>3, NextEntry
    <3> QED
      BY <1>0, <3>1, <3>2, <3>3, <3>4 DEF Over
  <2>5. RunSound'
    BY <2>1 DEF DelayInv, RunSound
  <2>6. EntrySound'
    <3> SUFFICES ASSUME NEW c \in Clusters, c \notin trimmed', c \notin unsaved,
                        lastRun[c] # NoEvent, loc.ver = pa.ver
                 PROVE  IF NextEvent(c) = NoEvent THEN Over(lastRun[c])
                        ELSE NextEvent(c).start = RFC3339(lastRun[c])
      BY <2>1, <2>3 DEF EntrySound, Over
    <3>1. loc = pa
      BY <2>1 DEF CopiesInv, LocalSound, Copy
    <3> QED
      BY <2>4, <3>1
  <2>7. DelayRespected'
    <3> SUFFICES ASSUME NEW c \in trimmed', c \notin unsaved, ~stale, lastRun[c] # NoEvent
                 PROVE  Over(lastRun[c])
      BY <2>1, <2>3 DEF DelayRespected, Over
    <3>1. c \in Clusters /\ NextEvent(c) = NoEvent
      BY <2>1, <2>2
    <3>2. loc.evs = pa.evs
      BY <2>1 DEF CopiesInv, LocalSound
    <3> QED
      BY <2>4, <3>1, <3>2
  <2> QED
    BY <2>5, <2>6, <2>7 DEF DelayInv
<1>4. CASE EventJob
  <2>1. UNCHANGED <<pa, now>> /\ pc = "job" /\ loc \in Automation /\ trimmed \subseteq Clusters
    BY <1>4 DEF EventJob, paVars, TypeInv, LocalsOK, AutomationTypeOK
  <2>2. CASE UNCHANGED <<lastRun, unsaved>> /\ pc' = "idle"
    BY <1>0, <2>1, <2>2, DelayElsewhere
  <2>3. CASE Recorded
    <3>1. /\ lastRun' = [c \in Clusters |-> IF c \in trimmed THEN now ELSE lastRun[c]]
          /\ unsaved' = unsaved \cup trimmed
      BY <2>3 DEF Recorded
    <3>2. RunSound'
      BY <1>0, <2>1, <3>1 DEF DelayInv, RunSound
    <3>3. CASE pc' = "idle"
      BY <3>2, <3>3 DEF DelayInv, EntrySound, DelayRespected
    <3>4. CASE /\ pc' = "status" /\ trimmed' = trimmed
               /\ loc' = [loc EXCEPT !.evs = [c \in Clusters |->
                            IF c \in trimmed THEN [start |-> RFC3339(now), event |-> @[c].event] ELSE @[c]]]
      <4>1. /\ loc'.ver = loc.ver /\ loc'.delay = loc.delay
            /\ loc'.evs = [c \in Clusters |->
                  IF c \in trimmed THEN [start |-> RFC3339(now), event |-> loc.evs[c].event]
                  ELSE loc.evs[c]]
        BY <2>1, <3>4 DEF Automation
      <4>2. ASSUME NEW c \in trimmed
            PROVE  /\ loc'.evs[c] # NoEvent /\ lastRun'[c] # NoEvent
                   /\ loc'.evs[c].start = RFC3339(lastRun'[c])
        <5>1. loc.evs[c] \in ClusterEvent
          BY <2>1 DEF TypeInv, LocalsOK
        <5>2. [start |-> RFC3339(now), event |-> loc.evs[c].event] \in ClusterEvent
          BY <1>0, <5>1, Truncation DEF ClusterEvent
        <5>3. now # NoEvent
          BY <1>0, EventAssumption
        <5> QED
          BY <2>1, <3>1, <4>1, <5>2, <5>3, EventAssumption
      <4>3. ASSUME NEW c \in Clusters, c \notin trimmed, c \notin unsaved', lastRun'[c] # NoEvent,
                   loc'.ver = pa'.ver
            PROVE  IF loc'.evs[c] = NoEvent THEN now' + Second > lastRun'[c] + loc'.delay
                   ELSE loc'.evs[c].start = RFC3339(lastRun'[c])
        BY <2>1, <3>1, <4>1, <4>3 DEF DelayInv, EntrySound, Over
      <4>4. EntrySound' /\ DelayRespected'
        BY <3>4, <4>2, <4>3 DEF EntrySound, DelayRespected, IsLast, Over
      <4> QED
        BY <3>2, <4>4 DEF DelayInv
    <3> QED
      BY <1>4, <3>3, <3>4 DEF EventJob, Retry, Return
  <2> QED
    BY <1>4, <2>2, <2>3 DEF EventJob, Retry, Return
<1>5. CASE UpdateStatus
  <2>1. /\ pc = "status" /\ pc' = "idle" /\ UNCHANGED now /\ loc \in Automation
        /\ lastRun' = [c \in Clusters |-> IF Forgotten(c, pa'.evs) THEN NoEvent ELSE lastRun[c]]
    BY <1>5 DEF UpdateStatus, Done, Retry, Return, TypeInv, LocalsOK
  <2>2. EntrySound' /\ DelayRespected'
    BY <2>1 DEF EntrySound, DelayRespected
  <2>3. CASE UNCHANGED <<pa, unsaved>>
    BY <2>1, <2>2, <2>3 DEF DelayInv, RunSound
  <2>4. CASE ~Conflict /\ Store(loc)
    <3>1. pa'.evs = loc.evs /\ loc.ver = pa.ver
      BY <2>1, <2>4, StoreFields DEF Conflict
    <3>2. unsaved' = unsaved \/ unsaved' = unsaved \ {c \in Clusters :
                                   loc.evs[c] # NoEvent /\ IsLast(c, loc.evs[c])}
      BY <1>5 DEF UpdateStatus
    <3> SUFFICES ASSUME NEW c \in Clusters, lastRun'[c] # NoEvent
                 PROVE  /\ lastRun'[c] <= now'
                        /\ c \notin unsaved' =>
                              pa'.evs[c] # NoEvent /\ pa'.evs[c].start = RFC3339(lastRun'[c])
      BY <2>2 DEF DelayInv, RunSound
    <3>3. lastRun'[c] = lastRun[c] /\ ~Forgotten(c, pa'.evs)
      BY <2>1
    <3>4. lastRun[c] <= now
      BY <3>3 DEF DelayInv, RunSound
    <3>5. ASSUME c \notin unsaved' PROVE loc.evs[c] # NoEvent /\ loc.evs[c].start = RFC3339(lastRun[c])
      <4>1. CASE c \in unsaved \/ c \in trimmed
        BY <2>1, <3>2, <3>5, <4>1 DEF DelayInv, EntrySound, IsLast
      <4>2. CASE c \notin unsaved /\ c \notin trimmed
        <5>1. pa.evs[c] # NoEvent
          BY <3>3, <4>2 DEF DelayInv, RunSound
        <5>2. IF loc.evs[c] = NoEvent THEN Over(lastRun[c])
              ELSE loc.evs[c].start = RFC3339(lastRun[c])
          BY <2>1, <3>1, <3>3, <4>2 DEF DelayInv, EntrySound
        <5> QED
          BY <3>1, <3>3, <5>1, <5>2 DEF Forgotten
      <4> QED
        BY <4>1, <4>2
    <3> QED
      BY <2>1, <3>1, <3>3, <3>4, <3>5
  <2> QED
    BY <1>5, <2>3, <2>4 DEF UpdateStatus, UpdateOK, UpdateFails, paVars
<1> QED
  BY <1>1, <1>2, <1>3, <1>4, <1>5 DEF Reconcile

LEMMA SurroundingsDelay ==
    ASSUME TypeInv, CopiesInv, DelayInv, Surroundings PROVE DelayInv'
<1>0. now \in Nat /\ now <= now
  BY AutomationBounds DEF TypeInv, AutomationTypeOK
<1>1. CASE Notify \/ ChangePolicy
  <2>1. UNCHANGED <<pa, now, lastRun, unsaved, pc, loc, trimmed, stale>>
    BY <1>1 DEF Notify, SeeAutomation, SeePolicy, Timer, ChangePolicy, paVars, reconciler, locals
  <2> QED
    BY <1>0, <2>1, DelayElsewhere
<1>2. CASE Tick
  <2>1. UNCHANGED <<pa, lastRun, unsaved, pc, loc, trimmed, stale>> /\ now' = now + 1
    BY <1>2 DEF Tick, paVars, locals
  <2>2. now' \in Nat /\ now <= now'
    BY <1>0, <2>1
  <2> QED
    BY <2>1, <2>2, DelayElsewhere
<1>3. CASE EditAutomation
  <2>1. UNCHANGED <<now, lastRun, unsaved, pc, loc, trimmed, stale>>
    BY <1>3 DEF EditAutomation, locals
  <2>2. pa'.evs = pa.evs /\ (pa' = pa \/ pa'.ver = pa.ver + 1)
    BY <1>3, EditedType, StoreFields
  <2> QED
    BY <1>0, <2>1, <2>2, DelayElsewhere
<1>4. CASE Restart
  <2>1. UNCHANGED <<pa, now, lastRun, unsaved>> /\ pc' = "idle"
    BY <1>4 DEF Restart, Retry, Return
  <2> QED
    BY <1>0, <2>1, DelayElsewhere
<1> QED
  BY <1>1, <1>2, <1>3, <1>4 DEF Surroundings

(* DelayRespected, for every set of clusters and delays and all bounds: when *)
(* a job of mode everyEvent is about to be created for a cluster, the delay  *)
(* after its last one is over or has less than a second to go, unless the    *)
(* reconcile read an old PolicyAutomation or that job never got into the     *)
(* status.                                                                   *)
THEOREM DelayKept == AutomationSpec => []DelayRespected
<1>1. DelayInv /\ UNCHANGED autoVars => DelayInv'
  BY DEF DelayInv, RunSound, EntrySound, DelayRespected, IsLast, Over, autoVars
<1>2. TypeInv /\ CopiesInv /\ DelayInv /\ [AutomationNext]_autoVars => DelayInv'
  BY <1>1, ReconcileDelay, SurroundingsDelay, AutomationNextSplit
<1> QED
  BY <1>2, AutomationInitDelay, TypeInvariant, CopiesInvariant, PTL DEF AutomationSpec, DelayInv

-----------------------------------------------------------------------------
(* Mode once.                                                                *)

LEMMA AutomationInitOnce == AutomationInit => OnceInv
<1> SUFFICES ASSUME AutomationInit PROVE OnceInv
  OBVIOUS
<1>1. queued /\ pstream = <<>> /\ pcached = policy
  BY DEF AutomationInit
<1> QED
  BY <1>1 DEF OnceInv, PolicyStreamSound, OnceSound

(* An Update either keeps generation and mode or leaves the cache behind.    *)
LEMMA StoreGeneration ==
    ASSUME TypeInv, StreamSound, NEW a \in Automation, Store(a)
    PROVE  (pa'.gen = pa.gen /\ pa'.mode = pa.mode) \/ cached.gen # pa'.gen
<1>1. cached.gen \in Nat /\ pa.gen \in Nat /\ cached.gen <= pa.gen
  BY FieldsType DEF TypeInv, AutomationTypeOK, StreamSound, Copy, Past
<1>2. CASE pa' = pa
  BY <1>2
<1>3. CASE Consecutive(pa, pa')
  BY <1>1, <1>3 DEF Consecutive, Spec
<1> QED
  BY <1>2, <1>3, StoreFields

(* Steps that keep what the claim is about, or queue.                         *)
LEMMA OnceElsewhere ==
    ASSUME OnceInv, UNCHANGED <<policy, pstream, pcached, cached>>, jobs \subseteq jobs',
           (pa'.gen = pa.gen /\ pa'.mode = pa.mode) \/ cached.gen # pa'.gen,
           \/ queued'
           \/ /\ queued' = queued
              /\ skipped' \/ (~skipped /\ pc' \notin {"own", "switch"}) \/ pc \in {"own", "switch"}
                 \/ skipped' = skipped
              /\ pc' \in {"own", "switch"} => pc \in {"own", "switch"}
              /\ pc \in {"own", "switch", "once"} /\ loc.gen = pa.gen /\ lpol.violated # {}
                 /\ pa'.mode = "once" /\ (~skipped' \/ pc' \in {"own", "switch"}) =>
                    \/ pc' \in {"own", "switch", "once"} /\ loc'.gen = pa'.gen /\ lpol' = lpol
                    \/ \E j \in jobs' : j.gen = pa.gen
    PROVE  OnceInv'
<1>1. PolicyStreamSound'
  BY DEF OnceInv, PolicyStreamSound
<1>2. OnceSound'
  BY DEF OnceInv, OnceSound, NewsOfPolicy, MatchPAGeneration
<1> QED
  BY <1>1, <1>2 DEF OnceInv

LEMMA ReconcileOnce ==
    ASSUME TypeInv, CopiesInv, OnceInv, Reconcile PROVE OnceInv'
<1>1. CASE Start
  <2>1. /\ UNCHANGED <<pa, cached, policy, pstream, pcached, jobs, skipped>>
        /\ loc' = cached /\ lpol' = pcached /\ pc' \in {"own", "switch"}
    BY <1>1 DEF Start, paVars, caches, policyVars
  <2>2. PolicyStreamSound'
    BY <2>1 DEF OnceInv, PolicyStreamSound
  <2>3. NewsOfPolicy \/ pcached.violated = policy.violated
    <3>1. CASE pstream = <<>>
      BY <3>1 DEF OnceInv, PolicyStreamSound
    <3>2. CASE pstream # <<>>
      <4>1. Len(pstream) \in 1 .. Len(pstream)
        BY <3>2 DEF TypeInv, AutomationTypeOK
      <4> QED
        BY <3>2, <4>1 DEF OnceInv, PolicyStreamSound, NewsOfPolicy
    <3> QED
      BY <3>1, <3>2
  <2>4. OnceSound'
    BY <2>1, <2>3 DEF OnceSound, NewsOfPolicy
  <2> QED
    BY <2>2, <2>4 DEF OnceInv
<1>2. CASE SetOwnerReferences
  <2>1. /\ UNCHANGED <<cached, policy, pstream, pcached, jobs, skipped>>
        /\ pc = "own" /\ loc \in Automation
    BY <1>2 DEF SetOwnerReferences, caches, policyVars, TypeInv, LocalsOK
  <2> DEFINE a == [loc EXCEPT !.owned = TRUE]
  <2>2. a \in Automation /\ Spec(a) = Spec(loc)
    BY <2>1 DEF Automation, Spec
  <2>3. CASE /\ UpdateOK(a) /\ pc' = "switch" /\ loc' = pa'
             /\ UNCHANGED <<queued, lpol>>
    <3>1. ~Conflict /\ Store(a)
      BY <2>3 DEF UpdateOK
    <3> HIDE DEF a
    <3>2. (pa'.gen = pa.gen /\ pa'.mode = pa.mode) \/ cached.gen # pa'.gen
      BY <2>2, <3>1, StoreGeneration DEF CopiesInv
    <3> QED
      BY <2>1, <2>3, <3>2, OnceElsewhere
  <2>4. CASE UpdateFails(a) /\ queued'
    <3>1. pa' = pa \/ Store(a)
      BY <2>4 DEF UpdateFails, paVars
    <3> HIDE DEF a
    <3>2. (pa'.gen = pa.gen /\ pa'.mode = pa.mode) \/ cached.gen # pa'.gen
      BY <2>2, <3>1, StoreGeneration DEF CopiesInv
    <3> QED
      BY <2>1, <2>4, <3>2, OnceElsewhere
  <2> QED
    BY <1>2, <2>3, <2>4 DEF SetOwnerReferences, Retry
<1>3. CASE Rerun \/ PolicyDisabled
  <2>1. /\ UNCHANGED <<pa, cached, policy, pstream, pcached, jobs, queued>> /\ pc = "switch"
        /\ skipped' /\ pc' \notin {"own", "switch"}
    BY <1>3 DEF Rerun, PolicyDisabled, Branch, Go, Done, Return, paVars, caches, policyVars
  <2> QED
    BY <2>1, OnceElsewhere
<1>4. CASE Disabled \/ EveryEvent \/ Once
  <2>1. /\ UNCHANGED <<pa, cached, policy, pstream, pcached, jobs, queued>> /\ pc = "switch"
        /\ ~skipped' /\ pc' \notin {"own", "switch"}
        /\ \/ loc.mode # "once"
           \/ lpol.violated = {}
           \/ pc' = "once" /\ UNCHANGED <<loc, lpol>>
    BY <1>4 DEF Disabled, EveryEvent, Once, Active, Branch, Targets, Go, Done, Return, paVars,
                caches, policyVars, locals
  <2>2. loc.gen = pa.gen => loc.mode = pa.mode
    BY <2>1 DEF CopiesInv, LocalSound, Copy, Past, Spec
  <2> QED
    BY <2>1, <2>2, OnceElsewhere
<1>5. CASE OnceJob
  <2>1. /\ UNCHANGED <<pa, cached, policy, pstream, pcached, skipped>> /\ pc = "once"
        /\ pc' \notin {"own", "switch"}
    BY <1>5 DEF OnceJob, Go, Done, Retry, Return, paVars, caches, policyVars
  <2>2. jobs \subseteq jobs'
    BY <1>5 DEF OnceJob, CreateOK, CreateFails, AddJob
  <2>3. queued' \/ (queued' = queued /\ \E j \in jobs' : j.gen = loc.gen)
    <3>1. CASE OnceDone /\ Done /\ UNCHANGED jobs
      BY <3>1 DEF OnceDone, MatchPAGeneration, Done
    <3>2. CASE AddJob("once", Targets) /\ Go("disable")
      <4>1. PICK i : jobs' = jobs \cup {[id |-> i, mode |-> "once", gen |-> loc.gen, ver |-> loc.ver]}
        BY <3>2 DEF AddJob
      <4> DEFINE r == [id |-> i, mode |-> "once", gen |-> loc.gen, ver |-> loc.ver]
      <4>2. r \in jobs' /\ r.gen = loc.gen
        BY <4>1
      <4> HIDE DEF r
      <4>3. \E j \in jobs' : j.gen = loc.gen
        BY <4>2
      <4> QED
        BY <3>2, <4>3 DEF Go
    <3> QED
      BY <1>5, <3>1, <3>2 DEF OnceJob, CreateOK, Retry
  <2> QED
    BY <2>1, <2>2, <2>3, OnceElsewhere
<1>6. CASE ManualJob
  <2>1. /\ UNCHANGED <<pa, cached, policy, pstream, pcached, skipped>> /\ pc = "manual"
        /\ pc' \notin {"own", "switch"} /\ jobs \subseteq jobs' /\ (queued' \/ queued' = queued)
    BY <1>6 DEF ManualJob, CreateOK, CreateFails, AddJob, Go, Retry, Return, paVars, caches,
                policyVars
  <2> QED
    BY <2>1, OnceElsewhere
<1>7. CASE AfterJob \/ UpdateStatus
  <2>1. /\ UNCHANGED <<cached, policy, pstream, pcached, skipped, jobs>>
        /\ pc \notin {"own", "switch", "once"} /\ pc' = "idle" /\ (queued' \/ queued' = queued)
    BY <1>7 DEF AfterJob, UpdateStatus, Done, Retry, Return, caches, policyVars
  <2>2. PICK a \in Automation : pa' = pa \/ Store(a)
    <3>1. loc \in Automation
      BY <1>7 DEF UpdateStatus, AfterJob, TypeInv, LocalsOK
    <3>2. [loc EXCEPT !.rerun = FALSE] \in Automation /\ [loc EXCEPT !.mode = "disabled"] \in Automation
      BY <3>1 DEF Automation, Modes
    <3> QED
      BY <1>7, <3>1, <3>2 DEF UpdateStatus, AfterJob, UpdateOK, UpdateFails, paVars
  <2>3. (pa'.gen = pa.gen /\ pa'.mode = pa.mode) \/ cached.gen # pa'.gen
    BY <2>2, StoreGeneration DEF CopiesInv
  <2> QED
    BY <2>1, <2>3, OnceElsewhere
<1>8. CASE EventJob
  <2>1. /\ UNCHANGED <<pa, cached, policy, pstream, pcached, skipped>> /\ pc = "job"
        /\ pc' \notin {"own", "switch"} /\ jobs \subseteq jobs' /\ (queued' \/ queued' = queued)
    BY <1>8 DEF EventJob, CreateOK, AddJob, Retry, Return, paVars, caches, policyVars
  <2> QED
    BY <2>1, OnceElsewhere
<1> QED
  BY <1>1, <1>2, <1>3, <1>4, <1>5, <1>6, <1>7, <1>8 DEF Reconcile

LEMMA SurroundingsOnce ==
    ASSUME TypeInv, CopiesInv, OnceInv, Surroundings PROVE OnceInv'
<1>1. CASE SeeAutomation
  <2>1. /\ UNCHANGED <<pa, policy, pstream, pcached, jobs, skipped, pc, loc, lpol>>
        /\ stream # <<>> /\ cached' = Head(stream)
        /\ queued' = (queued \/ AutomationPasses(cached, cached'))
    BY <1>1 DEF SeeAutomation, policyVars, reconciler, locals
  <2>2. Consecutive(cached, cached')
    BY <2>1 DEF CopiesInv, StreamSound, TypeInv, AutomationTypeOK
  <2>3. cached'.gen = cached.gen \/ queued'
    BY <2>1, <2>2 DEF Consecutive, AutomationPasses
  <2>4. queued => queued'
    BY <2>1
  <2> QED
    BY <2>1, <2>3, <2>4
    DEF OnceInv, PolicyStreamSound, OnceSound, NewsOfPolicy, MatchPAGeneration
<1>2. CASE SeePolicy
  <2>1. /\ UNCHANGED <<pa, cached, policy, jobs, skipped, pc, loc, lpol>>
        /\ pstream # <<>> /\ pstream \in Seq(Policy)
        /\ pcached' = Head(pstream) /\ pstream' = Tail(pstream)
        /\ queued' = (queued \/ (PolicyPasses(pcached, pcached') /\ PolicyMapper))
    BY <1>2 DEF SeePolicy, paVars, reconciler, locals, TypeInv, AutomationTypeOK
  <2>2. /\ Len(pstream) \in Nat \ {0} /\ Len(pstream') = Len(pstream) - 1
        /\ pcached' = pstream[1]
        /\ \A i \in 1 .. Len(pstream') : pstream'[i] = pstream[i + 1]
    BY <2>1
  <2>3. PolicyStreamSound'
    <3>1. CASE Len(pstream) = 1
      BY <2>1, <2>2, <3>1 DEF OnceInv, PolicyStreamSound
    <3>2. CASE Len(pstream) # 1
      <4>1. /\ pstream'[Len(pstream')] = pstream[Len(pstream)] /\ pstream' # <<>>
        BY <2>2, <3>2
      <4> QED
        BY <2>1, <4>1 DEF OnceInv, PolicyStreamSound
    <3> QED
      BY <3>1, <3>2
  <2>4. CASE pcached'.violated = pcached.violated
    <3>1. NewsOfPolicy => NewsOfPolicy'
      <4> SUFFICES ASSUME NewsOfPolicy PROVE NewsOfPolicy'
        OBVIOUS
      <4>1. PICK i \in 1 .. Len(pstream) : pstream[i].violated # pcached.violated
        BY DEF NewsOfPolicy
      <4>2. i - 1 \in 1 .. Len(pstream') /\ pstream'[i - 1] = pstream[i]
        BY <2>2, <2>4, <4>1
      <4> QED
        BY <2>4, <4>1, <4>2 DEF NewsOfPolicy
    <3>2. queued => queued'
      BY <2>1
    <3> QED
      BY <2>1, <2>3, <3>1, <3>2 DEF OnceInv, OnceSound, MatchPAGeneration
  <2>5. CASE pcached'.violated # pcached.violated
    <3>1. queued' \/ cached.mode \notin {"once", "everyEvent"}
      BY <2>1, <2>5 DEF PolicyPasses, PolicyMapper
    <3>2. cached.gen = pa.gen => cached.mode = pa.mode
      BY DEF CopiesInv, StreamSound, Copy, Past, Spec
    <3> QED
      BY <2>1, <2>3, <3>1, <3>2 DEF OnceInv, OnceSound
  <2> QED
    BY <2>4, <2>5
<1>3. CASE Timer \/ Tick
  <2>1. /\ UNCHANGED <<pa, cached, policy, pstream, pcached, jobs, skipped, pc, loc, lpol>>
        /\ queued' \/ queued' = queued
    BY <1>3 DEF Timer, Tick, paVars, caches, policyVars, reconciler, locals
  <2> QED
    BY <2>1, OnceElsewhere
<1>4. CASE EditAutomation
  <2>1. PICK a \in Automation : Store(a)
    BY <1>4, EditedType
  <2>2. UNCHANGED <<cached, policy, pstream, pcached, jobs, queued, skipped, pc, loc, lpol>>
    BY <1>4 DEF EditAutomation, caches, policyVars, locals
  <2>3. (pa'.gen = pa.gen /\ pa'.mode = pa.mode) \/ cached.gen # pa'.gen
    BY <2>1, StoreGeneration DEF CopiesInv
  <2> QED
    BY <2>2, <2>3 DEF OnceInv, PolicyStreamSound, OnceSound, NewsOfPolicy, MatchPAGeneration
<1>5. CASE ChangePolicy
  <2>1. PICK new : policy' = new /\ pstream' = Append(pstream, new)
    BY <1>5 DEF ChangePolicy
  <2>2. /\ UNCHANGED <<pa, cached, pcached, jobs, queued, skipped, pc, loc, lpol>>
        /\ pstream \in Seq(Policy) /\ new \in Policy
    <3>1. new \in Policy
      BY <1>5, <2>1, SurroundingsType DEF Surroundings, TypeInv, AutomationTypeOK
    <3> QED
      BY <1>5, <3>1 DEF ChangePolicy, paVars, caches, locals, TypeInv, AutomationTypeOK
  <2>3. /\ Len(pstream) \in Nat /\ Len(pstream') = Len(pstream) + 1 /\ pstream' # <<>>
        /\ \A i \in 1 .. Len(pstream) : pstream'[i] = pstream[i]
        /\ pstream'[Len(pstream')] = new
    BY <2>1, <2>2
  <2>4. PolicyStreamSound'
    BY <2>1, <2>3 DEF PolicyStreamSound
  <2>5. NewsOfPolicy => NewsOfPolicy'
    BY <2>2, <2>3 DEF NewsOfPolicy
  <2>6. new.violated # pcached.violated => NewsOfPolicy'
    BY <2>2, <2>3 DEF NewsOfPolicy
  <2>7. policy.violated # pcached.violated => NewsOfPolicy
    <3>1. CASE pstream = <<>>
      BY <3>1 DEF OnceInv, PolicyStreamSound
    <3>2. CASE pstream # <<>>
      <4>1. Len(pstream) \in 1 .. Len(pstream)
        BY <2>2, <3>2
      <4> QED
        BY <3>2, <4>1 DEF OnceInv, PolicyStreamSound, NewsOfPolicy
    <3> QED
      BY <3>1, <3>2
  <2>8. NewsOfPolicy' \/ policy'.violated = policy.violated
    BY <2>1, <2>5, <2>6, <2>7
  <2>9. OnceSound'
    BY <2>2, <2>5, <2>8 DEF OnceInv, OnceSound, MatchPAGeneration
  <2> QED
    BY <2>4, <2>9 DEF OnceInv
<1>6. CASE Restart
  <2>1. queued' /\ pstream' = <<>> /\ pcached' = policy'
    BY <1>6 DEF Restart, Retry
  <2> QED
    BY <2>1 DEF OnceInv, PolicyStreamSound, OnceSound
<1> QED
  BY <1>1, <1>2, <1>3, <1>4, <1>5, <1>6 DEF Surroundings, Notify

LEMMA OnceInvariant == AutomationSpec => [](TypeInv /\ CopiesInv /\ OnceInv)
<1>1. OnceInv /\ UNCHANGED autoVars => OnceInv'
  BY DEF OnceInv, PolicyStreamSound, OnceSound, NewsOfPolicy, MatchPAGeneration, autoVars
<1>2. TypeInv /\ CopiesInv /\ OnceInv /\ [AutomationNext]_autoVars => OnceInv'
  BY <1>1, ReconcileOnce, SurroundingsOnce, AutomationNextSplit
<1> QED
  BY <1>2, AutomationInitOnce, TypeInvariant, CopiesInvariant, PTL DEF AutomationSpec

(* How the PolicyAutomation is changed: by an Update, of its entries only    *)
(* with the status.                                                          *)
LEMMA StoredStep ==
    ASSUME TypeInv, CopiesInv, [AutomationNext]_autoVars
    PROVE  \/ pa' = pa
           \/ /\ cached' = cached /\ \E a \in Automation : Store(a)
              /\ pa'.evs = pa.evs \/ (UpdateStatus /\ Store(loc) /\ ~Conflict)
<1>1. CASE SetOwnerReferences \/ AfterJob
  <2>1. /\ pc \notin {"idle", "job", "status"} /\ loc \in Automation /\ cached' = cached
    BY <1>1 DEF SetOwnerReferences, AfterJob, TypeInv, LocalsOK, caches
  <2>2. PICK a \in Automation : a.evs = loc.evs /\ (UpdateOK(a) \/ UpdateFails(a))
    <3>1. /\ [loc EXCEPT !.owned = TRUE] \in Automation
          /\ [loc EXCEPT !.owned = TRUE].evs = loc.evs
          /\ [loc EXCEPT !.rerun = FALSE] \in Automation
          /\ [loc EXCEPT !.rerun = FALSE].evs = loc.evs
          /\ [loc EXCEPT !.mode = "disabled"] \in Automation
          /\ [loc EXCEPT !.mode = "disabled"].evs = loc.evs
      BY <2>1 DEF Automation, Modes
    <3> QED
      BY <1>1, <3>1 DEF SetOwnerReferences, AfterJob
  <2>3. CASE ~Conflict /\ Store(a)
    <3>1. loc = pa
      BY <2>1, <2>3, UnrefusedCopy DEF CopiesInv
    <3> QED
      BY <2>1, <2>2, <2>3, <3>1, StoreFields
  <2>4. CASE pa' = pa
    BY <2>4
  <2> QED
    BY <2>2, <2>3, <2>4 DEF UpdateOK, UpdateFails, paVars
<1>2. CASE UpdateStatus
  <2>1. loc \in Automation /\ cached' = cached
    BY <1>2 DEF UpdateStatus, TypeInv, LocalsOK, caches
  <2> QED
    BY <1>2, <2>1 DEF UpdateStatus, UpdateOK, UpdateFails, paVars
<1>3. CASE EditAutomation
  <2>1. cached' = cached
    BY <1>3 DEF EditAutomation, caches
  <2>2. PICK a \in Automation : Store(a) /\ a.evs = pa.evs
    BY <1>3, EditedType
  <2> QED
    BY <2>1, <2>2, StoreFields
<1>4. CASE Start \/ Rerun \/ PolicyDisabled \/ Disabled \/ Once \/ EveryEvent \/ ManualJob \/ OnceJob
           \/ EventJob
  BY <1>4 DEF Start, Rerun, PolicyDisabled, Disabled, Once, EveryEvent, Active, Branch, ManualJob,
              OnceJob, EventJob, paVars
<1>5. CASE Notify \/ Tick \/ ChangePolicy \/ Restart \/ UNCHANGED autoVars
  BY <1>5 DEF Notify, SeeAutomation, SeePolicy, Timer, Tick, ChangePolicy, Restart, paVars, autoVars
<1> QED
  BY <1>1, <1>2, <1>3, <1>4, <1>5 DEF AutomationNext, Reconcile

(* A later version does not change of which mode the jobs of a generation    *)
(* are.                                                                      *)
LEMMA BelongsStep ==
    ASSUME TypeInv, CopiesInv, [AutomationNext]_autoVars, NEW j \in Job, Belongs(j)
    PROVE  Belongs(j)'
<1>1. j.gen \in Nat /\ pa.gen \in Nat /\ j.gen <= pa.gen
  BY FieldsType DEF TypeInv, AutomationTypeOK, Job, Belongs
<1>2. CASE pa' = pa
  BY <1>2 DEF Belongs
<1>3. CASE Consecutive(pa, pa')
  BY <1>1, <1>3 DEF Belongs, Consecutive, Spec
<1> QED
  BY <1>2, <1>3, StoredStep, StoreFields

LEMMA NewBelongs ==
    ASSUME TypeInv, CopiesInv, EventJobsSound, pa' = pa, pc # "idle",
           NEW mode \in {"once", "everyEvent", "manual"}, NEW cs, AddJob(mode, cs),
           mode = "everyEvent" => pc = "job"
    PROVE  \A j \in jobs' : Belongs(j)'
<1> DEFINE new == [id |-> IF mode = "everyEvent" THEN 0 ELSE Cardinality(jobs) + 1,
                   mode |-> mode, gen |-> loc.gen, ver |-> loc.ver]
<1>1. jobs' = jobs \cup {new} /\ new.mode = mode /\ new.gen = loc.gen
  BY DEF AddJob
<1> HIDE DEF new
<1>2. loc.gen <= pa.gen /\ (loc.gen = pa.gen => loc.mode = pa.mode)
  BY DEF CopiesInv, LocalSound, Past, Spec
<1>3. Belongs(new)
  BY <1>1, <1>2 DEF Belongs, EventJobsSound
<1> QED
  BY <1>1, <1>3 DEF Belongs, EventJobsSound

LEMMA EventJobsStep ==
    ASSUME TypeInv, CopiesInv, EventJobsSound, [AutomationNext]_autoVars PROVE EventJobsSound'
<1>1. CASE UNCHANGED jobs
  <2>1. \A j \in jobs : Belongs(j)'
    BY BelongsStep DEF EventJobsSound, TypeInv, AutomationTypeOK
  <2>2. pc' = "job" => loc'.mode = "everyEvent"
    <3>1. CASE EveryEvent
      BY <3>1 DEF EveryEvent, Active, Branch, TypeInv, LocalsOK, Automation
    <3>2. CASE Start \/ SetOwnerReferences \/ Rerun \/ PolicyDisabled \/ Disabled \/ Once
               \/ ManualJob \/ OnceJob \/ AfterJob \/ EventJob \/ UpdateStatus \/ Restart
      BY <3>2 DEF Start, SetOwnerReferences, Rerun, PolicyDisabled, Disabled, Once, Active, Branch,
                  ManualJob, OnceJob, AfterJob, EventJob, UpdateStatus, Restart, Go, Done, Retry,
                  Return
    <3>3. CASE Notify \/ Tick \/ EditAutomation \/ ChangePolicy \/ UNCHANGED autoVars
      <4>1. UNCHANGED <<pc, loc>>
        BY <3>3 DEF Notify, SeeAutomation, SeePolicy, Timer, Tick, EditAutomation, ChangePolicy,
                    reconciler, locals, autoVars
      <4> QED
        BY <4>1 DEF EventJobsSound
    <3> QED
      BY <3>1, <3>2, <3>3 DEF AutomationNext, Reconcile
  <2> QED
    BY <1>1, <2>1, <2>2 DEF EventJobsSound
<1>2. ASSUME ManualJob \/ OnceJob \/ EventJob, jobs' # jobs PROVE EventJobsSound'
  <2>1. /\ pa' = pa /\ pc # "idle" /\ pc' # "job"
        /\ \/ AddJob("manual", Targets) \/ AddJob("once", Targets)
           \/ pc = "job" /\ AddJob("everyEvent", trimmed)
    BY <1>2 DEF ManualJob, OnceJob, EventJob, CreateOK, CreateFails, Go, Done, Retry, Return, paVars
  <2>2. \A j \in jobs' : Belongs(j)'
    BY <2>1, NewBelongs
  <2> QED
    BY <2>1, <2>2 DEF EventJobsSound
<1>3. ASSUME ~ManualJob, ~OnceJob, ~EventJob PROVE UNCHANGED jobs
  BY <1>3 DEF AutomationNext, Reconcile, Start, SetOwnerReferences, Rerun, PolicyDisabled, Disabled,
              Once, EveryEvent, Active, Branch, AfterJob, UpdateStatus, Notify, SeeAutomation,
              SeePolicy, Timer, Tick, EditAutomation, ChangePolicy, Restart, reconciler, autoVars
<1> QED
  BY <1>1, <1>2, <1>3

(* OnceServed, for all bounds: at rest a violated policy has a job in mode   *)
(* once of the generation of its PolicyAutomation in that mode, however the  *)
(* versions of the two objects were delivered; or a manual job was created   *)
(* for that generation, or the last reconcile ended at the rerun annotation  *)
(* or at a disabled policy.                                                  *)
THEOREM OnceHasItsJob == AutomationSpec => []OnceServed
<1>1. AutomationInit => EventJobsSound
  BY DEF AutomationInit, EventJobsSound
<1>2. TypeInv /\ CopiesInv /\ EventJobsSound /\ [AutomationNext]_autoVars => EventJobsSound'
  BY EventJobsStep
<1>3. ASSUME TypeInv, CopiesInv, OnceInv, EventJobsSound PROVE OnceServed
  <2> SUFFICES ASSUME AtRest, pa.mode = "once", ~policy.disabled, policy.violated # {}, ~skipped,
                      ~\E j \in jobs : j.mode = "manual" /\ j.gen = pa.gen
               PROVE  \E j \in jobs : j.mode = "once" /\ j.gen = pa.gen
    BY DEF OnceServed
  <2>1. PICK j \in jobs : j.gen = pa.gen
    BY <1>3 DEF CopiesInv, StreamSound, OnceInv, OnceSound, NewsOfPolicy, AtRest, MatchPAGeneration
  <2>2. j.mode \in {"once", "everyEvent", "manual"}
    BY <1>3 DEF TypeInv, AutomationTypeOK, Job
  <2>3. j.mode # "everyEvent"
    BY <1>3, <2>1 DEF EventJobsSound, Belongs
  <2> QED
    BY <2>1, <2>2, <2>3
<1> QED
  BY <1>1, <1>2, <1>3, OnceInvariant, PTL DEF AutomationSpec

-----------------------------------------------------------------------------
(* Mode everyEvent.                                                          *)

(* Only Start takes the PolicyAutomation out of the queue and makes copies.  *)
LEMMA QueueStep ==
    ASSUME [AutomationNext]_autoVars, ~Start
    PROVE  /\ queued => queued'
           /\ pc' = "idle" \/ (pc # "idle" /\ lpol' = lpol)
<1> USE DEF Go, Done, Retry, Return, locals, reconciler
<1>1. CASE Reconcile
  BY <1>1 DEF Reconcile, SetOwnerReferences, Rerun, PolicyDisabled, Disabled, Once, EveryEvent,
              Active, Branch, ManualJob, OnceJob, AfterJob, EventJob, UpdateStatus
<1>2. CASE Surroundings
  <2>1. queued => queued'
    <3>1. CASE SeeAutomation
      BY <3>1 DEF SeeAutomation
    <3>2. CASE SeePolicy
      BY <3>2 DEF SeePolicy
    <3> QED
      BY <1>2, <3>1, <3>2 DEF Surroundings, Notify, Timer, Tick, EditAutomation, ChangePolicy, Restart
  <2>2. pc' = "idle" \/ UNCHANGED <<pc, lpol>>
    BY <1>2 DEF Surroundings, Notify, SeeAutomation, SeePolicy, Timer, Tick, EditAutomation,
                ChangePolicy, Restart
  <2> QED
    BY <2>1, <2>2
<1>3. CASE UNCHANGED autoVars
  BY <1>3 DEF autoVars
<1> QED
  BY <1>1, <1>2, <1>3, AutomationNextSplit

(* A change of the spec is yet to be seen, or is seen and queues.            *)
LEMMA SpecStep ==
    ASSUME TypeInv, CopiesInv, [AutomationNext]_autoVars
    PROVE  \/ queued' \/ cached'.gen # pa'.gen
           \/ /\ pa'.gen = pa.gen /\ pa'.mode = pa.mode /\ pa'.delay = pa.delay
              /\ cached'.gen = cached.gen
<1>1. CASE SeeAutomation
  <2>1. /\ pa' = pa /\ stream # <<>> /\ cached' = Head(stream)
        /\ queued' = (queued \/ AutomationPasses(cached, cached'))
    BY <1>1 DEF SeeAutomation
  <2>2. Consecutive(cached, cached')
    BY <2>1 DEF CopiesInv, StreamSound, TypeInv, AutomationTypeOK
  <2> QED
    BY <2>1, <2>2 DEF Consecutive, AutomationPasses
<1>2. CASE Restart
  BY <1>2 DEF Restart, Retry
<1>3. ASSUME cached' = cached, NEW a \in Automation, Store(a)
      PROVE  (pa'.gen = pa.gen /\ pa'.mode = pa.mode /\ pa'.delay = pa.delay) \/ cached.gen # pa'.gen
  <2>1. cached.gen \in Nat /\ pa.gen \in Nat /\ cached.gen <= pa.gen
    BY FieldsType DEF TypeInv, AutomationTypeOK, CopiesInv, StreamSound, Copy, Past
  <2>2. CASE pa' = pa
    BY <2>2
  <2>3. CASE Consecutive(pa, pa')
    BY <2>1, <2>3 DEF Consecutive, Spec
  <2> QED
    BY <1>3, <2>2, <2>3, StoreFields
<1>4. ASSUME ~SeeAutomation, ~Restart PROVE cached' = cached
  BY <1>4 DEF AutomationNext, Reconcile, Start, SetOwnerReferences, Rerun, PolicyDisabled, Disabled,
              Once, EveryEvent, Active, Branch, ManualJob, OnceJob, AfterJob, EventJob, UpdateStatus,
              Notify, SeePolicy, Timer, Tick, EditAutomation, ChangePolicy, caches, autoVars
<1>5. CASE cached' = cached
  BY <1>3, <1>5, StoredStep
<1> QED
  BY <1>1, <1>2, <1>4, <1>5

(* The policy: a change of c is yet to be seen, or is seen and queues.       *)
LEMMA NewsStep ==
    ASSUME TypeInv, CopiesInv, PolicyStreamSound, [AutomationNext]_autoVars, NEW c \in Clusters,
           pa.mode = "everyEvent"
    PROVE  /\ NewsOf(c) => NewsOf(c)' \/ queued' \/ cached'.gen # pa'.gen
           /\ c \in policy'.violated \ policy.violated => NewsOf(c)'
<1>0. pstream \in Seq(Policy) /\ Len(pstream) \in Nat
  BY DEF TypeInv, AutomationTypeOK
<1>1. CASE UNCHANGED <<policy, pstream, pcached>>
  BY <1>1 DEF NewsOf
<1>2. CASE SeePolicy
  <2>1. /\ UNCHANGED <<pa, cached, policy>> /\ pstream # <<>>
        /\ pcached' = Head(pstream) /\ pstream' = Tail(pstream)
        /\ queued' = (queued \/ (PolicyPasses(pcached, pcached') /\ PolicyMapper))
    BY <1>2 DEF SeePolicy, paVars
  <2>2. CASE pcached'.violated = pcached.violated
    <3> SUFFICES ASSUME NewsOf(c) PROVE NewsOf(c)'
      BY <2>1
    <3>1. PICK i \in 1 .. Len(pstream) : (c \in pstream[i].violated) # (c \in pcached.violated)
      BY DEF NewsOf
    <3>2. /\ Len(pstream') = Len(pstream) - 1 /\ pcached' = pstream[1]
          /\ \A j \in 1 .. Len(pstream') : pstream'[j] = pstream[j + 1]
      BY <1>0, <2>1
    <3>3. i # 1
      BY <2>2, <3>1, <3>2
    <3>4. i - 1 \in 1 .. Len(pstream') /\ pstream'[i - 1] = pstream[i]
      BY <1>0, <3>2, <3>3
    <3> QED
      BY <2>2, <3>1, <3>4 DEF NewsOf
  <2>3. CASE pcached'.violated # pcached.violated
    <3>1. queued' \/ cached.mode \notin {"once", "everyEvent"}
      BY <2>1, <2>3 DEF PolicyPasses, PolicyMapper
    <3>2. cached.gen = pa.gen => cached.mode = pa.mode
      BY DEF CopiesInv, StreamSound, Copy, Past, Spec
    <3> QED
      BY <2>1, <3>1, <3>2
  <2> QED
    BY <2>2, <2>3
<1>3. CASE ChangePolicy
  <2>1. PICK new : policy' = new /\ pstream' = Append(pstream, new)
    BY <1>3 DEF ChangePolicy
  <2>2. pcached' = pcached
    BY <1>3 DEF ChangePolicy, caches
  <2>3. /\ Len(pstream') = Len(pstream) + 1 /\ pstream'[Len(pstream) + 1] = new
        /\ \A i \in 1 .. Len(pstream) : pstream'[i] = pstream[i]
    BY <1>0, <2>1
  <2>4. NewsOf(c) => NewsOf(c)'
    <3> SUFFICES ASSUME NewsOf(c) PROVE NewsOf(c)'
      OBVIOUS
    <3>1. PICK i \in 1 .. Len(pstream) : (c \in pstream[i].violated) # (c \in pcached.violated)
      BY DEF NewsOf
    <3>2. i \in 1 .. Len(pstream') /\ pstream'[i] = pstream[i]
      BY <1>0, <2>3
    <3> QED
      BY <2>2, <3>1, <3>2 DEF NewsOf
  <2>5. ASSUME c \in new.violated, c \notin policy.violated PROVE NewsOf(c)'
    <3>1. CASE c \notin pcached.violated
      <4>1. Len(pstream) + 1 \in 1 .. Len(pstream')
        BY <1>0, <2>3
      <4> QED
        BY <2>2, <2>3, <2>5, <3>1, <4>1 DEF NewsOf
    <3>2. CASE c \in pcached.violated
      <4>1. pstream # <<>>
        BY <2>5, <3>2 DEF PolicyStreamSound
      <4>2. Len(pstream) \in 1 .. Len(pstream) /\ pstream[Len(pstream)] = policy
        BY <1>0, <4>1 DEF PolicyStreamSound
      <4>3. NewsOf(c)
        BY <2>5, <3>2, <4>2 DEF NewsOf
      <4> QED
        BY <2>4, <4>3
    <3> QED
      BY <3>1, <3>2
  <2> QED
    BY <2>1, <2>4, <2>5
<1>4. CASE Restart
  BY <1>4 DEF Restart, Retry
<1> QED
  BY <1>1, <1>2, <1>3, <1>4
     DEF AutomationNext, Reconcile, Start, SetOwnerReferences, Rerun, PolicyDisabled, Disabled,
         Once, EveryEvent, Active, Branch, ManualJob, OnceJob, AfterJob, EventJob, UpdateStatus,
         Notify, SeeAutomation, Timer, Tick, EditAutomation, policyVars, caches, autoVars

LEMMA BehindStep ==
    ASSUME TypeInv, CopiesInv, PolicyStreamSound, [AutomationNext]_autoVars, ~Start,
           NEW c \in Clusters, pa.mode = "everyEvent", Behind(c) PROVE Behind(c)'
<1>1. queued => queued'
  BY QueueStep
<1>2. cached.gen # pa.gen => queued' \/ cached'.gen # pa'.gen
  BY SpecStep
<1>3. NewsOf(c) => NewsOf(c)' \/ queued' \/ cached'.gen # pa'.gen
  BY NewsStep
<1> QED
  BY <1>1, <1>2, <1>3 DEF Behind

LEMMA PendingStep ==
    ASSUME pending \subseteq policy.violated, [AutomationNext]_autoVars
    PROVE  pending' \subseteq policy'.violated
<1>1. CASE ChangePolicy
  BY <1>1 DEF ChangePolicy
<1>2. CASE OnceJob \/ ManualJob \/ EventJob
  <2>1. policy' = policy /\ pending' \subseteq pending
    BY <1>2 DEF OnceJob, ManualJob, EventJob, CreateOK, CreateFails, AddJob, policyVars
  <2> QED
    BY <2>1
<1>3. CASE UNCHANGED <<policy, pending>>
  BY <1>3
<1> QED
  BY <1>1, <1>2, <1>3
     DEF AutomationNext, Reconcile, Start, SetOwnerReferences, Rerun, PolicyDisabled, Disabled,
         Once, EveryEvent, Active, Branch, AfterJob, UpdateStatus,
         Notify, SeeAutomation, SeePolicy, Timer, Tick, EditAutomation, Restart, policyVars,
         reconciler, autoVars

LEMMA LookStep ==
    ASSUME TypeInv, CopiesInv, PolicyStreamSound, LookSound, [AutomationNext]_autoVars
    PROVE  LookSound'
<1>0. TypeInv' /\ policy.violated \subseteq Clusters
  BY ReconcileType, SurroundingsType, AutomationNextSplit
     DEF TypeInv, AutomationTypeOK, LocalsOK, Policy, autoVars
<1>v. policy'.violated \subseteq Clusters
  BY <1>0 DEF TypeInv, AutomationTypeOK, Policy
<1>1. CASE Start
  <2>1. /\ UNCHANGED <<pa, cached, policy, pstream, pcached>> /\ loc' = cached /\ lpol' = pcached
    BY <1>1 DEF Start, paVars, caches, policyVars
  <2>2. ASSUME NEW c \in policy.violated \ pcached.violated PROVE NewsOf(c)
    <3>1. pstream # <<>>
      BY <2>2 DEF PolicyStreamSound
    <3>2. Len(pstream) \in 1 .. Len(pstream) /\ pstream[Len(pstream)] = policy
      BY <3>1 DEF PolicyStreamSound, TypeInv, AutomationTypeOK
    <3> QED
      BY <2>2, <3>2 DEF NewsOf
  <2> QED
    BY <2>1, <2>2 DEF LookSound, Behind, NewsOf
<1>2. CASE ~Start /\ pc' # "idle"
  <2>1. pc # "idle" /\ lpol' = lpol /\ (queued => queued')
    BY <1>2, QueueStep
  <2>2. loc'.gen = loc.gen \/ loc' = pa'
    <3>1. CASE SetOwnerReferences
      BY <1>2, <3>1 DEF SetOwnerReferences, Retry, Return
    <3>2. CASE EveryEvent \/ EventJob
      <4>1. loc \in Automation
        BY <3>2 DEF EveryEvent, Active, Branch, EventJob, TypeInv, LocalsOK
      <4> QED
        BY <1>2, <3>2, <4>1 DEF EveryEvent, EventJob, Retry, Return, Automation
    <3>3. CASE Reconcile /\ ~Start /\ ~SetOwnerReferences /\ ~EveryEvent /\ ~EventJob
      BY <1>2, <3>3 DEF Reconcile, Rerun, PolicyDisabled, Disabled, Once, ManualJob, OnceJob,
                        AfterJob, UpdateStatus, Go, Done, Retry, Return, locals
    <3>4. CASE Surroundings
      BY <1>2, <3>4 DEF Surroundings, Notify, SeeAutomation, SeePolicy, Timer, Tick, EditAutomation,
                        ChangePolicy, Restart, Retry, Return, locals, reconciler
    <3>5. CASE UNCHANGED autoVars
      BY <3>5 DEF autoVars
    <3> QED
      BY <1>2, <3>1, <3>2, <3>3, <3>4, <3>5, AutomationNextSplit
  <2>3. loc'.gen # pa'.gen => queued' \/ cached'.gen # pa'.gen
    <3>1. loc.gen # pa.gen => queued \/ cached.gen # pa.gen
      BY <2>1 DEF LookSound
    <3> QED
      BY <2>1, <2>2, <3>1, SpecStep
  <2>4. ASSUME pa'.mode = "everyEvent", NEW c \in policy'.violated \ lpol'.violated PROVE Behind(c)'
    <3>1. CASE queued' \/ cached'.gen # pa'.gen
      BY <3>1 DEF Behind
    <3>2. CASE pa.mode = "everyEvent" /\ c \in policy.violated
      <4>1. Behind(c) /\ c \in Clusters
        BY <1>0, <2>1, <2>4, <3>2 DEF LookSound
      <4> QED
        BY <1>2, <3>2, <4>1, BehindStep
    <3>3. CASE pa.mode = "everyEvent" /\ c \notin policy.violated
      <4>1. c \in Clusters
        BY <1>v, <2>4
      <4> QED
        BY <2>4, <3>3, <4>1, NewsStep DEF Behind
    <3> QED
      BY <2>4, <3>1, <3>2, <3>3, SpecStep
  <2> QED
    BY <2>3, <2>4 DEF LookSound
<1>3. CASE pc' = "idle"
  BY <1>3 DEF LookSound
<1> QED
  BY <1>1, <1>2, <1>3

LEMMA PathStep ==
    ASSUME TypeInv, PathSound, [AutomationNext]_autoVars PROVE PathSound'
<1>1. CASE pc' = "idle"
  BY <1>1 DEF PathSound
<1>2. CASE Start \/ SetOwnerReferences
  BY <1>2 DEF Start, SetOwnerReferences, Retry, Return, PathSound
<1>3. CASE Rerun \/ PolicyDisabled \/ Disabled \/ Once
  BY <1>3 DEF Rerun, PolicyDisabled, Disabled, Once, Active, Go, Done, Return, locals, PathSound
<1>4. CASE EveryEvent
  <2>1. /\ lpol' = lpol /\ pc' \in {"job", "status"}
        /\ trimmed' = {c \in Targets : NextEvent(c) = NoEvent}
        /\ loc' = [loc EXCEPT !.evs = [c \in Clusters |->
                     IF c \in trimmed' THEN [start |-> RFC3339(now), event |-> RFC3339(now)]
                     ELSE NextEvent(c)]]
    BY <1>4 DEF EveryEvent
  <2>2. loc \in Automation /\ Targets \subseteq Clusters /\ Targets = lpol.violated
    BY <1>4 DEF EveryEvent, Active, Branch, TypeInv, LocalsOK, Targets, Policy
  <2>3. \A c \in Clusters : c \notin trimmed' => loc'.evs[c] = NextEvent(c)
    BY <2>1, <2>2 DEF Automation
  <2>4. \A c \in lpol'.violated \ trimmed' : loc'.evs[c] # NoEvent
    BY <2>1, <2>2, <2>3
  <2> QED
    BY <2>1, <2>4 DEF PathSound
<1>5. CASE ManualJob \/ OnceJob
  BY <1>5 DEF ManualJob, OnceJob, Go, Done, Retry, Return, locals, PathSound
<1>6. CASE EventJob /\ pc' # "idle"
  <2>1. /\ pc = "job" /\ pc' = "status" /\ UNCHANGED <<lpol, trimmed>>
        /\ loc' = [loc EXCEPT !.evs = [c \in Clusters |->
                     IF c \in trimmed THEN [start |-> RFC3339(now), event |-> @[c].event] ELSE @[c]]]
    BY <1>6 DEF EventJob, Retry, Return
  <2>2. loc \in Automation /\ lpol.violated \subseteq Clusters
    BY <2>1 DEF TypeInv, LocalsOK, Policy
  <2>3. \A c \in Clusters : c \notin trimmed => loc'.evs[c] = loc.evs[c]
    BY <2>1, <2>2 DEF Automation
  <2> QED
    BY <2>1, <2>2, <2>3 DEF PathSound
<1>7. CASE UNCHANGED <<pc, loc, lpol, trimmed, skipped>>
  BY <1>7 DEF PathSound
<1> QED
  BY <1>1, <1>2, <1>3, <1>4, <1>5, <1>6, <1>7
     DEF AutomationNext, Reconcile, AfterJob, UpdateStatus, Notify, SeeAutomation, SeePolicy, Timer,
         Tick, EditAutomation, ChangePolicy, Restart, Done, Retry, Return, locals, reconciler, autoVars

(* The entry of a cluster known to have recovered stays so.                  *)
LEMMA NextRecovered ==
    ASSUME TypeInv, pc = "switch", NEW c \in Clusters, NotAhead(loc.evs[c])
    PROVE  /\ NotAhead(NextEvent(c))
           /\ Recovered(loc.evs[c]) => Recovered(NextEvent(c))
<1>1. /\ loc \in Automation /\ now \in Nat /\ loc.evs[c] \in ClusterEvent \cup {NoEvent}
      /\ loc.delay \in Nat
  <2>1. loc \in Automation /\ now \in Nat
    BY AutomationBounds DEF TypeInv, LocalsOK, AutomationTypeOK
  <2> QED
    BY <2>1, FieldsType
<1>2. CASE loc.evs[c] = NoEvent
  BY <1>2 DEF NextEvent, NotAhead, Recovered
<1>3. CASE loc.evs[c] # NoEvent
  <2>1. PICK ev \in ClusterEvent : ev = loc.evs[c]
    BY <1>1, <1>3
  <2>2. PICK t \in Nat : t = RFC3339(now)
    BY <1>1, Truncation
  <2>3. /\ ev.start \in Nat /\ ev.event \in Nat /\ ev.event <= t
        /\ [ev EXCEPT !.event = t].start = ev.start /\ [ev EXCEPT !.event = t].event = t
    BY <1>3, <2>1, <2>2 DEF ClusterEvent, NotAhead
  <2>4. NextEvent(c) \in {NoEvent, ev, [ev EXCEPT !.event = t]}
    BY <1>3, <2>1, <2>2 DEF NextEvent
  <2>5. CASE NextEvent(c) = NoEvent \/ NextEvent(c) = ev
    BY <2>1, <2>5 DEF NotAhead, Recovered
  <2>6. CASE NextEvent(c) = [ev EXCEPT !.event = t]
    <3>1. NextEvent(c).start = ev.start /\ NextEvent(c).event = t
      BY <2>3, <2>6
    <3>2. NotAhead(NextEvent(c))
      BY <2>2, <3>1 DEF NotAhead
    <3>3. Recovered(loc.evs[c]) => Recovered(NextEvent(c))
      BY <1>3, <2>1, <2>3, <3>1 DEF Recovered
    <3> QED
      BY <3>2, <3>3
  <2> QED
    BY <2>4, <2>5, <2>6
<1> QED
  BY <1>2, <1>3

(* Steps that make no entries.                                               *)
LEMMA EntriesElsewhere ==
    ASSUME TypeInv, CopiesInv, EntriesSound, [AutomationNext]_autoVars,
           pa'.evs = pa.evs, noticed' \subseteq noticed, now' \in Nat, now' >= now,
           \/ pc' \notin {"job", "status"}
           \/ UNCHANGED <<pc, loc, trimmed>>
    PROVE  EntriesSound'
<1>0. /\ pa \in Automation /\ pa' \in Automation /\ now \in Nat
      /\ \A a \in Automation : \A c \in Clusters :
           a.evs[c] # NoEvent => a.evs[c].event \in Nat
  <2>1. TypeInv'
    BY ReconcileType, SurroundingsType, AutomationNextSplit
    DEF TypeInv, AutomationTypeOK, LocalsOK, autoVars
  <2>2. pa \in Automation /\ pa' \in Automation /\ now \in Nat
    BY <2>1, AutomationBounds DEF TypeInv, AutomationTypeOK
  <2>3. \A ev \in ClusterEvent \cup {NoEvent} : ev # NoEvent => ev.event \in Nat
    BY DEF ClusterEvent
  <2> QED
    BY <2>2, <2>3, FieldsType
<1>3. RFC3339(now) \in Nat /\ RFC3339(now)' \in Nat /\ RFC3339(now) <= RFC3339(now)'
  <2>1. PICK t \in Nat, u \in Nat : t = now /\ u = now' /\ t <= u
    BY <1>0
  <2>2. RFC3339(now) = RFC3339(t) /\ RFC3339(now)' = RFC3339(u)
    BY <2>1 DEF RFC3339
  <2> QED
    BY <2>1, <2>2, Truncation, TruncationOrder
<1>1. \A c \in Clusters : NotAhead(pa.evs[c])' /\ (c \in noticed' => Recovered(pa.evs[c])')
  BY <1>0, <1>3 DEF EntriesSound, NotAhead, Recovered
<1>2. ASSUME UNCHANGED <<pc, loc, trimmed>>, pc \in {"job", "status"}
      PROVE  /\ loc'.ver = pa'.ver => \A c \in Clusters :
                  NotAhead(loc.evs[c])' /\ (c \in noticed' \ trimmed' => Recovered(loc.evs[c])')
             /\ pc' = "status" => trimmed' \cap noticed' = {}
  <2>1. loc \in Automation /\ loc.ver \in Nat /\ pa.ver \in Nat /\ loc.ver <= pa.ver
    BY <1>0, <1>2, FieldsType DEF TypeInv, LocalsOK, CopiesInv, LocalSound, Past
  <2>2. loc'.ver = pa'.ver => loc.ver = pa.ver
    <3>1. pa' = pa \/ pa'.ver = pa.ver + 1
      BY StoredStep, StoreFields
    <3> QED
      BY <1>2, <2>1, <3>1
  <2> QED
    BY <1>0, <1>2, <1>3, <2>1, <2>2 DEF EntriesSound, NotAhead, Recovered
<1> QED
  BY <1>1, <1>2 DEF EntriesSound

LEMMA EntriesStep ==
    ASSUME TypeInv, CopiesInv, EntriesSound, [AutomationNext]_autoVars PROVE EntriesSound'
<1>0. pa \in Automation /\ now \in Nat /\ now >= now
  BY AutomationBounds DEF TypeInv, AutomationTypeOK
<1>1. CASE EveryEvent
  <2>1. /\ UNCHANGED <<pa, now, noticed>> /\ pc = "switch"
        /\ trimmed' = {c \in Targets : NextEvent(c) = NoEvent}
        /\ pc' = IF trimmed' = {} THEN "status" ELSE "job"
        /\ loc' = [loc EXCEPT !.evs = [c \in Clusters |->
                     IF c \in trimmed' THEN [start |-> RFC3339(now), event |-> RFC3339(now)]
                     ELSE NextEvent(c)]]
    BY <1>1 DEF EveryEvent, Active, Branch, paVars
  <2>2. loc \in Automation
    BY <2>1 DEF TypeInv, LocalsOK
  <2>3. /\ loc'.ver = loc.ver
        /\ \A c \in Clusters : loc'.evs[c] =
             IF c \in trimmed' THEN [start |-> RFC3339(now), event |-> RFC3339(now)]
             ELSE NextEvent(c)
    BY <2>1, <2>2 DEF Automation
  <2>4. ASSUME loc.ver = pa.ver, NEW c \in Clusters
        PROVE  NotAhead(loc.evs[c])' /\ (c \in noticed \ trimmed' => Recovered(loc.evs[c])')
    <3>1. loc = pa
      BY <2>1, <2>4 DEF CopiesInv, LocalSound, Copy
    <3>2. NotAhead(loc.evs[c]) /\ (c \in noticed => Recovered(loc.evs[c]))
      BY <3>1 DEF EntriesSound
    <3>3. NotAhead(NextEvent(c)) /\ (c \in noticed => Recovered(NextEvent(c)))
      BY <2>1, <3>2, NextRecovered
    <3>4. CASE c \in trimmed'
      <4>1. RFC3339(now)' = RFC3339(now)
        BY <2>1 DEF RFC3339
      <4>2. loc'.evs[c].event = RFC3339(now)
        BY <2>3, <3>4
      <4> QED
        BY <1>0, <3>4, <4>1, <4>2, Truncation DEF NotAhead
    <3>5. CASE c \notin trimmed'
      BY <2>1, <2>3, <3>3, <3>5 DEF NotAhead, Recovered
    <3> QED
      BY <3>4, <3>5
  <2>5. \A c \in Clusters : NotAhead(pa.evs[c])' /\ (c \in noticed' => Recovered(pa.evs[c])')
    BY <2>1 DEF EntriesSound, NotAhead, Recovered
  <2> QED
    BY <2>1, <2>3, <2>4, <2>5 DEF EntriesSound
<1>2. CASE EventJob
  <2>1. UNCHANGED <<pa, now>> /\ pc = "job" /\ noticed' \subseteq noticed
    BY <1>2 DEF EventJob, Recorded, paVars
  <2>2. CASE pc' = "idle"
    BY <1>0, <2>1, <2>2, EntriesElsewhere
  <2>3. CASE pc' # "idle"
    <3>1. /\ pc' = "status" /\ trimmed' = trimmed /\ noticed' = noticed \ trimmed
          /\ loc' = [loc EXCEPT !.evs = [c \in Clusters |->
                       IF c \in trimmed THEN [start |-> RFC3339(now), event |-> @[c].event] ELSE @[c]]]
      BY <1>2, <2>3 DEF EventJob, Recorded, Retry, Return
    <3>2. loc \in Automation /\ \A c \in trimmed : loc.evs[c] \in ClusterEvent
      BY <2>1 DEF TypeInv, LocalsOK
    <3>3. /\ loc'.ver = loc.ver
          /\ \A c \in Clusters : loc'.evs[c] =
               IF c \in trimmed THEN [start |-> RFC3339(now), event |-> loc.evs[c].event]
               ELSE loc.evs[c]
      BY <3>1, <3>2 DEF Automation
    <3>4. ASSUME loc.ver = pa.ver, NEW c \in Clusters
          PROVE  NotAhead(loc.evs[c])' /\ (c \in noticed \ trimmed => Recovered(loc.evs[c])')
      <4>1. NotAhead(loc.evs[c]) /\ (c \in noticed \ trimmed => Recovered(loc.evs[c]))
        BY <2>1, <3>4 DEF EntriesSound
      <4>2. CASE c \in trimmed
        <5>1. loc.evs[c] # NoEvent
          BY <3>2, <4>2, EventAssumption
        <5>2. loc'.evs[c] = [start |-> RFC3339(now), event |-> loc.evs[c].event]
          BY <3>3, <4>2
        <5>3. loc'.evs[c].event = loc.evs[c].event
          BY <5>2
        <5> QED
          BY <2>1, <4>1, <4>2, <5>1, <5>3 DEF NotAhead
      <4>3. CASE c \notin trimmed
        BY <2>1, <3>3, <4>1, <4>3 DEF NotAhead, Recovered
      <4> QED
        BY <4>2, <4>3
    <3>5. \A c \in Clusters : NotAhead(pa.evs[c])' /\ (c \in noticed' => Recovered(pa.evs[c])')
      BY <2>1 DEF EntriesSound, NotAhead, Recovered
    <3> QED
      BY <2>1, <3>1, <3>3, <3>4, <3>5 DEF EntriesSound
  <2> QED
    BY <2>2, <2>3
<1>3. CASE UpdateStatus
  <2>1. now' = now /\ pc = "status" /\ pc' = "idle" /\ loc \in Automation
    BY <1>3 DEF UpdateStatus, Done, Retry, Return, TypeInv, LocalsOK
  <2>2. CASE pa' = pa /\ noticed' = noticed
    BY <1>0, <2>1, <2>2, EntriesElsewhere
  <2>3. CASE ~Conflict /\ Store(loc)
    <3>1. pa'.evs = loc.evs /\ loc.ver = pa.ver
      BY <2>1, <2>3, StoreFields DEF Conflict
    <3>2. /\ \A c \in Clusters :
               NotAhead(loc.evs[c]) /\ (c \in noticed \ trimmed => Recovered(loc.evs[c]))
          /\ trimmed \cap noticed = {}
      BY <2>1, <3>1 DEF EntriesSound
    <3>3. \A c \in Clusters : c \in noticed' => c \in noticed \/ Recovered(loc.evs[c])
      BY <1>3 DEF UpdateStatus, Recovered
    <3>4. \A c \in Clusters : NotAhead(pa.evs[c])' /\ (c \in noticed' => Recovered(pa.evs[c])')
      BY <2>1, <3>1, <3>2, <3>3 DEF NotAhead, Recovered
    <3> QED
      BY <2>1, <3>4 DEF EntriesSound
  <2> QED
    BY <1>3, <2>2, <2>3 DEF UpdateStatus, UpdateOK, UpdateFails, paVars
<1>4. CASE Reconcile /\ ~EveryEvent /\ ~EventJob /\ ~UpdateStatus
  <2>1. UNCHANGED <<now, noticed>> /\ pc' \notin {"job", "status"}
    BY <1>4 DEF Reconcile, Start, SetOwnerReferences, Rerun, PolicyDisabled, Disabled, Once, Active,
                Branch, ManualJob, OnceJob, AfterJob, Go, Done, Retry, Return
  <2>2. pa'.evs = pa.evs
    BY <1>4, StoredStep
  <2> QED
    BY <1>0, <2>1, <2>2, EntriesElsewhere
<1>5. CASE Surroundings
  <2>1. /\ noticed' = noticed /\ (pc' \notin {"job", "status"} \/ UNCHANGED <<pc, loc, trimmed>>)
        /\ now' = now \/ now' = now + 1
    BY <1>5 DEF Surroundings, Notify, SeeAutomation, SeePolicy, Timer, Tick, EditAutomation,
                ChangePolicy, Restart, Retry, Return, locals, reconciler
  <2>2. pa'.evs = pa.evs
    <3>1. CASE EditAutomation
      BY <3>1, EditedType, StoreFields
    <3> QED
      BY <1>5, <3>1 DEF Surroundings, Notify, SeeAutomation, SeePolicy, Timer, Tick, ChangePolicy,
                        Restart, paVars
  <2> QED
    BY <1>0, <2>1, <2>2, EntriesElsewhere
<1>6. CASE UNCHANGED autoVars
  BY <1>6 DEF autoVars, EntriesSound, NotAhead, Recovered
<1> QED
  BY <1>1, <1>2, <1>3, <1>4, <1>5, <1>6, AutomationNextSplit

LEMMA IdleStep ==
    ASSUME TypeInv, CopiesInv, PolicyStreamSound, ServedInv, [AutomationNext]_autoVars
    PROVE  IdleSound'
<1> SUFFICES ASSUME pc' = "idle", pa'.mode = "everyEvent", ~skipped', ~queued',
                    cached'.gen = pa'.gen, NEW c \in pending' \cap noticed'
             PROVE  Behind(c)' \/ Waiting(c)'
  BY DEF IdleSound, Behind
<1>0. /\ pa'.gen = pa.gen /\ pa'.mode = pa.mode /\ pa'.delay = pa.delay /\ cached'.gen = cached.gen
      /\ pa.mode = "everyEvent"
  BY SpecStep
<1>1. c \in Clusters /\ pa \in Automation /\ pa.delay \in Nat
  <2>1. TypeInv'
    BY ReconcileType, SurroundingsType, AutomationNextSplit
    DEF TypeInv, AutomationTypeOK, LocalsOK, autoVars
  <2> QED
    BY <2>1, FieldsType DEF TypeInv, AutomationTypeOK
<1>2. ~Start
  BY DEF Start
<1>3. ASSUME Behind(c) PROVE Behind(c)'
  BY <1>0, <1>1, <1>2, <1>3, BehindStep
<1>4. CASE UpdateStatus
  <2>1. /\ UpdateOK(loc) /\ pc = "status" /\ policy' = policy /\ pending' = pending
        /\ wake' = LET ends == IF wake = 0 THEN DelayEnds ELSE DelayEnds \cup {wake}
                   IN  IF ends = {} THEN 0 ELSE Min(ends)
        /\ noticed' \subseteq noticed \cup (Clusters \ Targets)
    BY <1>4 DEF UpdateStatus, Retry, policyVars
  <2>2. /\ loc \in Automation /\ lpol \in Policy /\ loc.delay \in Nat /\ wake \in Nat
        /\ loc.evs[c] \in ClusterEvent \cup {NoEvent}
    BY <1>1, <2>1, FieldsType DEF TypeInv, LocalsOK, AutomationTypeOK
  <2>3. pa'.evs = loc.evs /\ pa'.delay = loc.delay /\ loc.ver = pa.ver
    BY <2>1, <2>2, StoreFields DEF UpdateOK, Conflict
  <2>4. CASE c \notin lpol.violated
    <3>1. c \in policy.violated
      BY <2>1 DEF ServedInv
    <3>2. Behind(c)
      BY <1>0, <2>1, <2>4, <3>1 DEF ServedInv, LookSound
    <3> QED
      BY <1>3, <3>2
  <2>5. CASE c \in lpol.violated
    <3>1. c \in noticed \ trimmed
      BY <2>1, <2>5 DEF Targets, ServedInv, EntriesSound
    <3>2. loc.evs[c] # NoEvent /\ loc.evs[c].event > loc.evs[c].start
      BY <1>1, <2>1, <2>3, <2>5, <3>1 DEF ServedInv, PathSound, EntriesSound, Recovered
    <3>3. CASE loc.delay = 0
      BY <2>3, <3>2, <3>3 DEF Waiting
    <3>4. CASE loc.delay # 0
      <4>1. loc.delay > 0 /\ loc.evs[c].start \in Nat
        BY <2>2, <3>2, <3>4 DEF ClusterEvent
      <4>2. DelayUntil(loc.evs[c]) + 1 \in DelayEnds
        BY <2>5, <3>1, <3>2, <4>1 DEF DelayEnds, Targets
      <4>3. DelayEnds \subseteq Nat /\ 0 \notin DelayEnds
        <5> SUFFICES ASSUME NEW d \in Targets \ trimmed, loc.evs[d] # NoEvent
                     PROVE  DelayUntil(loc.evs[d]) + 1 \in Nat /\ DelayUntil(loc.evs[d]) + 1 # 0
          BY DEF DelayEnds
        <5>1. d \in Clusters
          BY <2>2 DEF Targets, Policy
        <5>2. loc.evs[d] \in ClusterEvent
          BY <2>2, <5>1, FieldsType
        <5> QED
          BY <2>2, <4>1, <5>2 DEF DelayUntil, ClusterEvent
      <4>4. PICK ends \in SUBSET Nat : ends # {} /\ 0 \notin ends /\ wake' = Min(ends)
        BY <2>1, <2>2, <4>2, <4>3
      <4>5. wake' # 0
        BY <4>4, MinOfNaturals
      <4> QED
        BY <2>3, <4>1, <4>5 DEF Waiting
    <3> QED
      BY <3>3, <3>4
  <2> QED
    BY <2>4, <2>5
<1>5. CASE Reconcile /\ ~UpdateStatus
  <2>1. Behind(c)
    <3>1. pc # "idle" /\ (loc.mode # "everyEvent" \/ queued')
      BY <1>2, <1>5 DEF Reconcile, SetOwnerReferences, Rerun, PolicyDisabled, Disabled, Once,
           EveryEvent, Active, Branch, ManualJob, OnceJob, AfterJob, EventJob, Go, Done, Retry, Return,
           ServedInv, PathSound
    <3>2. loc.gen # pa.gen
      BY <1>0, <3>1 DEF CopiesInv, LocalSound, Past, Spec
    <3> QED
      BY <3>1, <3>2 DEF ServedInv, LookSound, Behind
  <2> QED
    BY <1>3, <2>1
<1>6. CASE Surroundings \/ UNCHANGED autoVars
  <2>1. UNCHANGED <<wake, skipped, noticed, pc>>
    BY <1>6 DEF Surroundings, Notify, SeeAutomation, SeePolicy, Timer, Tick, EditAutomation,
                ChangePolicy, Restart, Retry, Return, reconciler, locals, autoVars
  <2>2. pa'.evs = pa.evs
    <3>1. CASE EditAutomation
      BY <3>1, EditedType, StoreFields
    <3> QED
      BY <1>6, <3>1 DEF Surroundings, Notify, SeeAutomation, SeePolicy, Timer, Tick, ChangePolicy,
                        Restart, paVars, autoVars
  <2>3. c \in pending \/ c \in policy'.violated \ policy.violated
    <3>1. CASE ChangePolicy
      BY <3>1 DEF ChangePolicy
    <3> QED
      BY <1>6, <3>1 DEF Surroundings, Notify, SeeAutomation, SeePolicy, Timer, Tick, EditAutomation,
                        Restart, reconciler, autoVars
  <2>4. CASE c \in pending
    <3>1. Behind(c) \/ Waiting(c)
      BY <1>0, <2>1, <2>4 DEF ServedInv, IdleSound
    <3> QED
      BY <1>0, <1>3, <2>1, <2>2, <3>1 DEF Waiting
  <2>5. CASE c \in policy'.violated \ policy.violated
    BY <1>0, <1>1, <2>5, NewsStep DEF Behind
  <2> QED
    BY <2>3, <2>4, <2>5
<1> QED
  BY <1>4, <1>5, <1>6, AutomationNextSplit

(* ServedUnlessUnnoticed, for every set of clusters and delays and all       *)
(* bounds: at rest every violation in mode everyEvent has had its job, waits *)
(* for the end of the delay, or is on a cluster whose recovery the status    *)
(* does not know of, although policy, PolicyAutomation and status are read   *)
(* late, Updates conflict, fail or are lost, and the propagator restarts;    *)
(* with the exceptions the property names.                                   *)
THEOREM EventsAreServed == AutomationSpec => []ServedUnlessUnnoticed
<1>1. AutomationInit => ServedInv
  <2> SUFFICES ASSUME AutomationInit PROVE ServedInv
    OBVIOUS
  <2>1. pc = "idle" /\ queued /\ pending = policy.violated /\ \A c \in Clusters : pa.evs[c] = NoEvent
    BY DEF AutomationInit
  <2> QED
    BY <2>1 DEF ServedInv, LookSound, PathSound, EntriesSound, IdleSound, NotAhead, Recovered, Behind
<1>2. TypeInv /\ CopiesInv /\ OnceInv /\ ServedInv /\ [AutomationNext]_autoVars => ServedInv'
  <2> SUFFICES ASSUME TypeInv, CopiesInv, OnceInv, ServedInv, [AutomationNext]_autoVars PROVE ServedInv'
    OBVIOUS
  <2>1. /\ PolicyStreamSound /\ pending \subseteq policy.violated
        /\ LookSound /\ PathSound /\ EntriesSound
    BY DEF OnceInv, ServedInv
  <2>2. pending' \subseteq policy'.violated /\ PathSound'
    BY <2>1, PendingStep, PathStep
  <2>3. LookSound' /\ EntriesSound'
    BY <2>1, LookStep, EntriesStep
  <2>4. IdleSound'
    BY <2>1, IdleStep
  <2> QED
    BY <2>2, <2>3, <2>4 DEF ServedInv
<1>3. CopiesInv /\ ServedInv => ServedUnlessUnnoticed
  <2> SUFFICES ASSUME CopiesInv, ServedInv, AtRest, pa.mode = "everyEvent", ~skipped,
                      NEW c \in pending, c \in noticed
               PROVE  Waiting(c)
    BY DEF ServedUnlessUnnoticed, Waiting
  <2>1. ~Behind(c)
    BY DEF AtRest, CopiesInv, StreamSound, Behind, NewsOf
  <2> QED
    BY <2>1 DEF AtRest, ServedInv, IdleSound
<1> QED
  BY <1>1, <1>2, <1>3, OnceInvariant, PTL DEF AutomationSpec

=============================================================================
