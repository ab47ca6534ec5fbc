--------------------------- MODULE PolicyAutomation ---------------------------
(***************************************************************************)
(* One PolicyAutomation and the root policy it refers to.  The controller  *)
(* creates AnsibleJobs for the clusters on which the policy is             *)
(* non-compliant: one job and no more (mode once), a job for every new     *)
(* violation (mode everyEvent), or a job on demand (annotation rerun).     *)
(* The PolicyAutomation and the policy are read from caches; AnsibleJobs   *)
(* are listed from the API server.  The clock is finer than the seconds in *)
(* which times are written to the status.                                  *)
(***************************************************************************)
EXTENDS Integers, Sequences, FiniteSets, FiniteSetsExt

CONSTANTS
    Clusters,
    Second,       \* ticks of the clock in a second
    Delays,       \* values of delayAfterRunSeconds, in ticks
    NoEvent,      \* no entry in ClustersWithEvent
    NoCopy,       \* no object in a local variable
    MaxTime,      \* bound of the clock
    MaxEvents     \* bound of the edits, status changes, failures and restarts

ASSUME SecondAssumption == Second \in Nat \ {0}
ASSUME DelaysAssumption == Delays \subseteq Nat
ASSUME WholeSeconds == \A d \in Delays : d % Second = 0
ASSUME AutomationBounds == {MaxTime, MaxEvents} \subseteq Nat /\ Second <= MaxTime

VARIABLES
    pa,           \* the PolicyAutomation on the API server
    stream,       \* its versions the informer has not delivered
    cached,       \* the PolicyAutomation in the cache
    policy,       \* the root policy: whether disabled, where non-compliant
    pstream,      \* its versions the informer has not delivered
    pcached,      \* the root policy in the cache
    jobs,         \* the AnsibleJobs; those of one version in mode everyEvent are one
    lastRun,      \* history: start of the last job in mode everyEvent for each
                  \* cluster, none once its entry was dropped after the delay
    now,          \* the clock
    wake,         \* when RequeueAfter is due, 0 for never
    queued,       \* the PolicyAutomation is in the queue
    pc,           \* step of the reconcile
    loc,          \* its copy of the PolicyAutomation
    lpol,         \* its copy of the root policy
    trimmed,      \* those the job in everyEvent mode is for
    pending,      \* history: violations for which no job was created
    unsaved,      \* history: clusters whose last event job is not in the status
    noticed,      \* history: clusters that the status says were compliant after
                  \* their last event job
    stale,        \* history: the reconcile reads an old PolicyAutomation
    skipped,      \* history: the last reconcile never came to the mode
    events        \* edits, status changes, failures and restarts so far

autoVars == <<pa, stream, cached, policy, pstream, pcached, jobs, lastRun, now, wake, queued, pc,
              loc, lpol, trimmed, pending, unsaved, noticed, stale, skipped, events>>
paVars     == <<pa, stream>>
caches     == <<cached, pcached>>
locals     == <<loc, lpol, trimmed, stale>>
policyVars == <<policy, pstream>>

Modes == {"once", "everyEvent", "disabled"}
ClusterEvent == [start : Nat, event : Nat]
Automation == [mode : Modes, delay : Delays, rerun : BOOLEAN, owned : BOOLEAN,
               gen : Nat, ver : Nat, evs : [Clusters -> ClusterEvent \cup {NoEvent}]]
Policy == [disabled : BOOLEAN, violated : SUBSET Clusters]
Job == [id : Nat, mode : {"once", "everyEvent", "manual"}, gen : Nat, ver : Nat]

ASSUME EventAssumption == NoEvent \notin ClusterEvent \cup Nat

AutomationTypeOK ==
    /\ {pa, cached} \subseteq Automation /\ loc \in Automation \cup {NoCopy}
    /\ stream \in Seq(Automation)
    /\ {policy, pcached} \subseteq Policy /\ lpol \in Policy \cup {NoCopy} /\ pstream \in Seq(Policy)
    /\ jobs \subseteq Job /\ lastRun \in [Clusters -> Nat \cup {NoEvent}]
    /\ now \in 0 .. MaxTime /\ wake \in Nat
    /\ queued \in BOOLEAN /\ skipped \in BOOLEAN /\ stale \in BOOLEAN
    /\ pc \in {"idle", "own", "switch", "manual", "rerun", "once", "disable", "job", "status"}
    /\ {trimmed, pending, unsaved, noticed} \subseteq SUBSET Clusters
    /\ events \in 0 .. MaxEvents

-----------------------------------------------------------------------------
Event   == events < MaxEvents /\ events' = events + 1
NoEvents == UNCHANGED events

(* The API server: an update of an old copy is refused, one that changes     *)
(* nothing makes no version, one that changes the spec a new generation.     *)
Spec(a) == <<a.mode, a.delay>>
Conflict == pa.ver # loc.ver
Store(a) ==
    LET same == [a EXCEPT !.ver = pa.ver, !.gen = pa.gen] = pa
        new  == [a EXCEPT !.ver = pa.ver + 1,
                          !.gen = IF Spec(a) = Spec(pa) THEN pa.gen ELSE pa.gen + 1]
    IN  /\ pa' = IF same THEN pa ELSE new
        /\ stream' = IF same THEN stream ELSE Append(stream, new)

Return == pc' = "idle" /\ loc' = NoCopy /\ lpol' = NoCopy /\ trimmed' = {} /\ stale' = FALSE
Retry  == Return /\ queued' = TRUE
Bug_Requeue == Return /\ queued' = TRUE
Done == Return /\ UNCHANGED queued

(* An Update: it is stored, or refused, or fails before or after that.       *)
UpdateOK(a) == ~Conflict /\ Store(a) /\ NoEvents
UpdateFails(a) ==
    \/ Conflict /\ NoEvents /\ UNCHANGED paVars
    \/ ~Conflict /\ Event /\ UNCHANGED paVars
    \/ ~Conflict /\ Event /\ Store(a)

(* CreateAnsibleJob, with the copy's generation and resourceVersion.         *)
AddJob(mode, cs) ==
    /\ jobs' = jobs \cup {[id |-> IF mode = "everyEvent" THEN 0 ELSE Cardinality(jobs) + 1,
                           mode |-> mode, gen |-> loc.gen, ver |-> loc.ver]}
    /\ pending' = pending \ cs

CreateOK(mode, cs) == AddJob(mode, cs) /\ NoEvents
CreateFails(mode, cs) ==
    \/ Event /\ UNCHANGED <<jobs, pending>>
    \/ Event /\ AddJob(mode, cs)

MatchPAGeneration(g) == \E j \in jobs : j.gen = g
MatchPAResourceV(v)  == \E j \in jobs : j.ver = v

-----------------------------------------------------------------------------
(* Reconcile.                                                                *)

(* FindNonCompliantClustersForPolicy                                         *)
Targets == lpol.violated

Start ==
    /\ pc = "idle" /\ queued
    /\ queued' = FALSE
    /\ loc' = cached /\ lpol' = pcached
    /\ stale' = (cached # pa)
    /\ pc' = IF cached.owned THEN "switch" ELSE "own"
    /\ NoEvents
    /\ UNCHANGED <<paVars, caches, policyVars, jobs, lastRun, now, wake, trimmed, pending, unsaved,
                   noticed, skipped>>

(* setOwnerReferences; the reconcile goes on with the copy the Update filled.*)
SetOwnerReferences ==
    /\ pc = "own"
    /\ LET a == [loc EXCEPT !.owned = TRUE]
       IN  \/ /\ UpdateOK(a) /\ pc' = "switch" /\ loc' = pa'
              /\ UNCHANGED <<queued, lpol, trimmed, stale>>
           \/ UpdateFails(a) /\ Retry
    /\ UNCHANGED <<caches, policyVars, jobs, lastRun, now, wake, pending, unsaved, noticed, skipped>>

(* The branches of Reconcile.  The annotation comes before the mode, and     *)
(* what is done for it is all that is done.                                  *)
Branch ==
    /\ pc = "switch" /\ NoEvents
    /\ UNCHANGED <<paVars, caches, policyVars, jobs, lastRun, now, wake, pending, unsaved, noticed>>

Go(step) == pc' = step /\ UNCHANGED <<locals, queued>>

RerunDone == MatchPAResourceV(loc.ver)

Rerun ==
    /\ Branch /\ loc.rerun
    /\ skipped' = TRUE
    /\ IF RerunDone THEN Done ELSE Go("manual")

PolicyDisabled ==
    /\ Branch /\ ~loc.rerun /\ lpol.disabled
    /\ skipped' = TRUE /\ Done

Active(mode) == Branch /\ ~loc.rerun /\ ~lpol.disabled /\ loc.mode = mode /\ skipped' = FALSE

Disabled == Active("disabled") /\ Done

Once ==
    /\ Active("once")
    /\ IF Targets = {} THEN Done ELSE Go("once")

(* Format and Parse with time.RFC3339: a time in the status is cut to whole  *)
(* seconds, the present time it is compared with is not.                     *)
RFC3339(t) == t - (t % Second)

(* What becomes of the entry of a cluster in ClustersWithEvent.              *)
DelayUntil(ev) == ev.start + loc.delay

Bug_NextEvent(c) ==
    IF loc.evs[c] # NoEvent /\ c \in Targets THEN loc.evs[c] ELSE NoEvent
Bug_SetBack(c) ==
    IF loc.evs[c] # NoEvent THEN [loc.evs[c] EXCEPT !.event = now - loc.delay] ELSE NoEvent

NextEvent(c) ==
    LET ev == loc.evs[c] IN
    CASE ev = NoEvent -> NoEvent
      [] ev # NoEvent /\ c \in Targets ->
           IF loc.delay > 0 /\ ev.event > ev.start
           THEN IF now > DelayUntil(ev) THEN NoEvent ELSE [ev EXCEPT !.event = RFC3339(now)]
           ELSE ev
      [] ev # NoEvent /\ c \notin Targets ->
           IF loc.delay > 0 /\ now < DelayUntil(ev) THEN [ev EXCEPT !.event = RFC3339(now)]
           ELSE NoEvent

EveryEvent ==
    /\ Active("everyEvent")
    /\ trimmed' = {c \in Targets : NextEvent(c) = NoEvent}
    /\ pc' = IF trimmed' = {} THEN "status" ELSE "job"
    /\ loc' = [loc EXCEPT !.evs = [c \in Clusters |->
                 IF c \in trimmed' THEN [start |-> RFC3339(now), event |-> RFC3339(now)]
                 ELSE NextEvent(c)]]
    /\ UNCHANGED <<queued, lpol, stale>>

Recorded == /\ lastRun' = [c \in Clusters |-> IF c \in trimmed THEN now ELSE lastRun[c]]
            /\ unsaved' = unsaved \cup trimmed
            /\ noticed' = noticed \ trimmed

(* The job and then the status; the start of the automation is the time      *)
(* after the job was created.                                                *)
EventJob ==
    /\ pc = "job"
    /\ \/ /\ CreateOK("everyEvent", trimmed) /\ Recorded
          /\ pc' = "status" /\ UNCHANGED <<queued, lpol, trimmed, stale>>
          /\ loc' = [loc EXCEPT !.evs = [c \in Clusters |->
                       IF c \in trimmed THEN [start |-> RFC3339(now), event |-> @[c].event] ELSE @[c]]]
       \/ Event /\ AddJob("everyEvent", trimmed) /\ Recorded /\ Retry
       \/ Event /\ Retry /\ UNCHANGED <<jobs, pending, lastRun, unsaved, noticed>>
    /\ UNCHANGED <<paVars, caches, policyVars, now, wake, skipped>>

(* A violation that came back within the delay is looked at again as soon as *)
(* it is over.                                                               *)
Bug_NoRequeue == {}

DelayEnds ==
    {DelayUntil(loc.evs[c]) + 1 : c \in {c \in Targets \ trimmed :
        loc.delay > 0 /\ loc.evs[c] # NoEvent /\ loc.evs[c].event > loc.evs[c].start}}

(* The delay is over, but for the part of a second that the start was cut by.*)
Over(t) == now + Second > t + loc.delay

(* The entry of a cluster is dropped when its delay is over.                 *)
Forgotten(c, evs) ==
    /\ pa.evs[c] # NoEvent /\ evs[c] = NoEvent
    /\ lastRun[c] # NoEvent => Over(lastRun[c])

(* The entry is the one of the last job.                                     *)
IsLast(c, ev) == lastRun[c] # NoEvent /\ ev.start = RFC3339(lastRun[c])

UpdateStatus ==
    /\ pc = "status"
    /\ \/ /\ UpdateOK(loc) /\ Done
          /\ LET ends == IF wake = 0 THEN DelayEnds ELSE DelayEnds \cup {wake}
             IN  wake' = IF ends = {} THEN 0 ELSE Min(ends)
          /\ unsaved' = unsaved \ {c \in Clusters : loc.evs[c] # NoEvent /\ IsLast(c, loc.evs[c])}
          /\ noticed' = noticed \cup {c \in Clusters \ Targets :
                          loc.evs[c] # NoEvent => loc.evs[c].event > loc.evs[c].start}
       \/ UpdateFails(loc) /\ Retry /\ UNCHANGED <<wake, unsaved, noticed>>
    /\ lastRun' = [c \in Clusters |-> IF Forgotten(c, pa'.evs) THEN NoEvent ELSE lastRun[c]]
    /\ UNCHANGED <<caches, policyVars, jobs, now, pending, skipped>>

(* The manual job is for the non-compliant clusters, even if there are none. *)
ManualJob ==
    /\ pc = "manual"
    /\ \/ CreateOK("manual", Targets) /\ Go("rerun")
       \/ CreateFails("manual", Targets) /\ Retry
    /\ UNCHANGED <<paVars, caches, policyVars, lastRun, now, wake, unsaved, noticed, skipped>>

Bug_OnceDone == \E j \in jobs : j.ver = loc.ver

OnceDone == MatchPAGeneration(loc.gen)

OnceJob ==
    /\ pc = "once"
    /\ \/ OnceDone /\ NoEvents /\ Done /\ UNCHANGED <<jobs, pending>>
       \/ ~OnceDone /\ CreateOK("once", Targets) /\ Go("disable")
       \/ ~OnceDone /\ CreateFails("once", Targets) /\ Retry
    /\ UNCHANGED <<paVars, caches, policyVars, lastRun, now, wake, unsaved, noticed, skipped>>

(* The Updates after a manual job and after the job in mode once.            *)
AfterJob ==
    /\ pc \in {"rerun", "disable"}
    /\ LET a == IF pc = "rerun" THEN [loc EXCEPT !.rerun = FALSE]
                ELSE [loc EXCEPT !.mode = "disabled"]
       IN  \/ UpdateOK(a) /\ Done
           \/ UpdateFails(a) /\ Retry
    /\ UNCHANGED <<caches, policyVars, jobs, lastRun, now, wake, pending, unsaved, noticed, skipped>>

-----------------------------------------------------------------------------
(* Informers with the predicates, the mapper, the clock and the timer.       *)

AutomationPasses(old, new) == new.rerun \/ Spec(new) # Spec(old)
PolicyPasses(old, new) == new.violated # old.violated

Bug_PolicyMapper == cached.mode = "everyEvent"

PolicyMapper == cached.mode \in {"once", "everyEvent"}

reconciler == <<jobs, lastRun, now, pc, locals, pending, unsaved, noticed, skipped, events>>

SeeAutomation ==
    /\ stream # <<>>
    /\ cached' = Head(stream) /\ stream' = Tail(stream)
    /\ queued' = (queued \/ AutomationPasses(cached, Head(stream)))
    /\ UNCHANGED <<pa, pcached, policyVars, wake, reconciler>>

SeePolicy ==
    /\ pstream # <<>>
    /\ pcached' = Head(pstream) /\ pstream' = Tail(pstream)
    /\ queued' = (queued \/ (PolicyPasses(pcached, Head(pstream)) /\ PolicyMapper))
    /\ UNCHANGED <<paVars, cached, policy, wake, reconciler>>

Timer ==
    /\ wake # 0 /\ wake <= now
    /\ wake' = 0 /\ queued' = TRUE
    /\ UNCHANGED <<paVars, caches, policyVars, reconciler>>

Tick ==
    /\ now < MaxTime /\ now' = now + 1
    /\ UNCHANGED <<paVars, caches, policyVars, jobs, lastRun, wake, queued, pc, locals, pending,
                   unsaved, noticed, skipped, events>>

-----------------------------------------------------------------------------
(* Users edit the PolicyAutomation, the other controllers the policy; a      *)
(* restart queues the PolicyAutomation again.                                *)

EditAutomation ==
    /\ Event
    /\ \E a \in {[pa EXCEPT !.mode = m] : m \in Modes} \cup {[pa EXCEPT !.delay = d] : d \in Delays}
                \cup {[pa EXCEPT !.rerun = TRUE]} :
          a # pa /\ Store(a)
    /\ UNCHANGED <<caches, policyVars, jobs, lastRun, now, wake, queued, pc, locals, pending,
                   unsaved, noticed, skipped>>

ChangePolicy ==
    /\ Event
    /\ \E new \in {[policy EXCEPT !.disabled = ~@]} \cup {[policy EXCEPT !.violated = vs] :
                                                        vs \in SUBSET Clusters} :
          /\ new # policy
          /\ policy' = new /\ pstream' = Append(pstream, new)
          /\ pending' = (pending \cap new.violated) \cup (new.violated \ policy.violated)
    /\ UNCHANGED <<paVars, caches, jobs, lastRun, now, wake, queued, pc, locals, unsaved, noticed,
                   skipped>>

Restart ==
    /\ Event
    /\ cached' = pa /\ stream' = <<>> /\ pcached' = policy /\ pstream' = <<>>
    /\ Retry /\ wake' = 0
    /\ UNCHANGED <<pa, policy, jobs, lastRun, now, pending, unsaved, noticed, skipped>>

-----------------------------------------------------------------------------
(* A new PolicyAutomation for a policy that is violated, shortly before the  *)
(* clock reaches a whole second.                                             *)
AutomationInit ==
    /\ \E m \in Modes, d \in Delays :
          pa = [mode |-> m, delay |-> d, rerun |-> FALSE, owned |-> FALSE, gen |-> 1, ver |-> 1,
                evs |-> [c \in Clusters |-> NoEvent]]
    /\ cached = pa /\ stream = <<>>
    /\ policy = [disabled |-> FALSE, violated |-> Clusters]
    /\ pcached = policy /\ lpol = NoCopy /\ pstream = <<>>
    /\ jobs = {} /\ lastRun = [c \in Clusters |-> NoEvent] /\ now = Second - 1 /\ wake = 0
    /\ queued = TRUE /\ pc = "idle" /\ loc = NoCopy /\ trimmed = {}
    /\ pending = policy.violated /\ unsaved = {} /\ noticed = Clusters
    /\ stale = FALSE /\ skipped = FALSE /\ events = 0

Reconcile ==
    \/ Start \/ SetOwnerReferences
    \/ Rerun \/ PolicyDisabled \/ Disabled \/ Once \/ EveryEvent
    \/ ManualJob \/ OnceJob \/ AfterJob \/ EventJob \/ UpdateStatus

Notify == SeeAutomation \/ SeePolicy \/ Timer

AutomationNext ==
    \/ Reconcile \/ Notify \/ Tick
    \/ EditAutomation \/ ChangePolicy \/ Restart

(* The worker, the informers and the timer keep running.                     *)
AutomationFairness ==
    WF_autoVars(Reconcile) /\ WF_autoVars(Notify)

AutomationSpec == AutomationInit /\ [][AutomationNext]_autoVars /\ AutomationFairness

-----------------------------------------------------------------------------
AtRest ==
    /\ stream = <<>> /\ pstream = <<>> /\ ~queued /\ pc = "idle"
    /\ wake # 0 => wake > now

(* MatchPAGeneration, MatchPAResourceV: whatever fails or is read late, mode *)
(* once creates at most one job in a generation and a rerun at most one for  *)
(* a resourceVersion.                                                        *)
AtMostOneJob ==
    \A i, j \in jobs :
       i # j /\ i.mode = j.mode =>
         /\ i.mode = "once" => i.gen # j.gen
         /\ i.mode = "manual" => i.ver # j.ver

(* Reconcile, mode everyEvent: at rest every violation has had its job, is   *)
(* waiting for the end of the delay, or is on a cluster whose recovery the   *)
(* status does not know of; unless the last reconcile ended at the rerun     *)
(* annotation or at a disabled policy, or the delay was taken back while an  *)
(* event was waiting for its end.                                            *)
ServedUnlessUnnoticed ==
    AtRest /\ pa.mode = "everyEvent" /\ ~policy.disabled /\ ~skipped =>
      \A c \in pending : \/ c \notin noticed
                         \/ wake # 0 /\ pa.delay > 0
                         \/ pa.delay = 0 /\ pa.evs[c] # NoEvent

(* Mode once: at rest a violated policy has had a job in mode once in this   *)
(* generation; unless a manual job of the generation was created, which      *)
(* MatchPAGeneration takes for it, or the last reconcile ended at the rerun  *)
(* annotation or at a disabled policy.                                       *)
OnceServed ==
    /\ AtRest /\ pa.mode = "once" /\ ~policy.disabled /\ policy.violated # {}
    /\ ~skipped /\ ~\E j \in jobs : j.mode = "manual" /\ j.gen = pa.gen
    => \E j \in jobs : j.mode = "once" /\ j.gen = pa.gen

(* Status.ClustersWithEvent: a job in mode everyEvent is for clusters whose  *)
(* last one was started delayAfterRunSeconds ago or less than a second short *)
(* of that (the start is kept in whole seconds), unless it was not recorded  *)
(* or the reconcile read an old PolicyAutomation.                            *)
DelayRespected ==
    pc = "job" =>
      \A c \in trimmed : c \in unsaved \/ stale \/ (lastRun[c] # NoEvent => Over(lastRun[c]))

(* "DelayAfterRunSeconds sets the minimum number of seconds before an        *)
(* automation can run again due to a new violation on the same managed       *)
(* cluster": the same without the part of a second.                          *)
MinimumDelay ==
    pc = "job" =>
      \A c \in trimmed : c \in unsaved \/ stale
                           \/ (lastRun[c] # NoEvent => now >= lastRun[c] + loc.delay)

(* The controller comes to rest.                                             *)
AutomationRests == []<>AtRest

=============================================================================
