----------------------------- MODULE Reconciler -----------------------------
(***************************************************************************)
(* The VerticalPodAutoscalerController reconciler                          *)
(* (internal/controller/verticalpodautoscaler/                             *)
(* verticalpodautoscaler_controller.go), the API server it writes to, the  *)
(* informer caches it reads from, the one-key work queue that schedules    *)
(* it, the garbage collector, and the users who change things under it.    *)
(*                                                                         *)
(* Reads (r.Get) are answered by the cache, writes (r.Create, r.Update)    *)
(* by the API server, and each is a step of its own: anything may happen   *)
(* between a read and the write that relies on it.  Content is abstract: a *)
(* slot keeps what the reconciler manages and compares (content), what     *)
(* everybody else put into the object (extra) and the controller reference *)
(* (owner, a UID).  Resource versions are only ever compared for equality, *)
(* so a slot carries none: pending tells whether the cached copy is the    *)
(* current version, heldStale whether the copy being written back is.      *)
(***************************************************************************)
EXTENDS Naturals, Sequences

CONSTANTS
    Order,          \* the objects in the order Reconcile visits them
    Overrides,      \* what the user asks of the operands (VPA spec fields)
    Canonical,      \* Overrides as the API server stores them (defaulting)
    Profiles,       \* TLS profiles the APIServer config can name
    Versions,       \* operator release versions
    NoContent,      \* content of a slot that holds no object
    Foreign,        \* content written by somebody else than the operator
    NoProfile,      \* Config.TLSProfileSpec = nil
    Unresolvable,   \* a profile GetTLSProfileSpec rejects
    MaxEnv,         \* bound: interventions of users, admins and crashes
    MaxFails,       \* bound: API calls that fail or whose reply is lost
    Resyncs         \* whether the periodic informer resync is modelled

Deployments == {"vpa-recommender-default", "vpa-updater-default", "vpa-admission-plugin-default"}

Policies == {"vpa-default-deny", "vpa-allow-egress-to-dns",
             "vpa-allow-egress-to-api-server",
             "vpa-allow-ingress-to-admission-webhook",
             "vpa-allow-ingress-to-metrics"}

Names == Deployments \union {"vpa-webhook", "vpa-tls-ca-certs"} \union Policies

Objects == {Order[i] : i \in 1..Len(Order)}

\* The kinds SetupWithManager lists under Owns; NetworkPolicy is not one.
Watched == Objects \ Policies

TLSSettings == Profiles \union {NoProfile}

VPASpecs == [recommendationOnly : BOOLEAN, overrides : Overrides]

Configs == [version : Versions, tls : TLSSettings]

ASSUME OrderAssumption == Order \in Seq(Names) /\ Len(Order) > 0
ASSUME CanonicalAssumption ==
    /\ Overrides # {}
    /\ Canonical \in [Overrides -> Overrides]
    /\ \A v \in Overrides : Canonical[Canonical[v]] = Canonical[v]
ASSUME ProfileAssumption == Unresolvable \notin TLSSettings
ASSUME BoundAssumption ==
    MaxEnv \in Nat /\ MaxFails \in Nat /\ Resyncs \in BOOLEAN

-----------------------------------------------------------------------------
(* What the reconciler wants each object to contain.                       *)

\* The recommender always runs, the other two unless recommendationOnly.
Replicas(o, s) ==
    IF o # "vpa-recommender-default" /\ s.recommendationOnly THEN 0 ELSE 1

\* Only the admission controller's arguments carry the TLS profile.
PodSpec(o, s, tls) ==
    [overrides |-> s.overrides,
     tls |-> IF o = "vpa-admission-plugin-default" THEN tls ELSE NoProfile]

Expected(o, s, c) ==
    IF o \in Deployments
    THEN [podSpec  |-> PodSpec(o, s, c.tls),
          replicas |-> Replicas(o, s),
          version  |-> c.version]
    ELSE IF o \in Policies THEN [policy |-> o]
    ELSE [version |-> c.version]

\* What the API server keeps when Expected(o, s, c) is written: it fills in
\* the defaults the user's overrides leave open.
Stored(o, s, c) == Expected(o, [s EXCEPT !.overrides = Canonical[@]], c)

Contents(o) ==
    {NoContent, Foreign} \union
        {Stored(o, s, c) : s \in VPASpecs, c \in Configs}

ASSUME ContentAssumption ==
    \A o \in Objects : \A s \in VPASpecs : \A c \in Configs :
        Expected(o, s, c) \notin {NoContent, Foreign}

-----------------------------------------------------------------------------
VARIABLES
    store,      \* API server: object name -> slot
    cache,      \* informer caches: object name -> slot
    pending,    \* undelivered watch events per object: "none", "silent"
                \* (map to no request) or "enqueue" (map to the VPA)
    vpa, vpaCache, vpaPending,  \* the VPA resource, its cached copy, and
                                \* whether an event about it is undelivered
    api, apiCache, apiPending,  \* the cluster's APIServer config, likewise
    cfg,        \* r.Config: release version and TLSProfileSpec
    up,         \* whether the operator process runs
    queued,     \* the key is in the work queue, or dirty while processed
    pc,         \* where the (only) worker is in Reconcile
    idx,        \* Order[idx] is the object being visited
    rvpa,       \* Reconcile's copy of the VPA resource
    held,       \* the existing object about to be written back
    heldStale,  \* whether held is no longer the stored version
    env, fails  \* budgets used

clusterVars == <<store, vpa, api>>
cacheVars   == <<cache, pending, vpaCache, vpaPending, apiCache, apiPending>>
workerVars  == <<pc, idx, rvpa, held, heldStale>>
vars == <<clusterVars, cacheVars, cfg, up, queued, workerVars, env, fails>>

Absent == [live |-> FALSE, content |-> NoContent, extra |-> 0, owner |-> 0]

Slots == [live : BOOLEAN, extra : Nat, owner : Nat,
          content : UNION {Contents(o) : o \in Objects}]

\* uid counts the resources created under this name: a recreated resource
\* is not the owner of its predecessor's objects.
VPAs == [live : BOOLEAN, spec : VPASpecs, uid : Nat]

NoVPA == [live |-> FALSE, spec |-> CHOOSE s \in VPASpecs : TRUE, uid |-> 0]

APIServers == [live : BOOLEAN, honor : BOOLEAN,
               profile : Profiles \union {Unresolvable}]

NoAPIServer == [live |-> FALSE, honor |-> FALSE, profile |-> Unresolvable]

APIServerConfigs == {a \in APIServers : a.live} \union {NoAPIServer}

StoreTyped ==
    /\ store \in [Objects -> Slots]
    /\ pending \in [Objects -> {"none", "silent", "enqueue"}]
    /\ \A o \in Objects : store[o].content \in Contents(o)

CacheTyped ==
    /\ cache \in [Objects -> Slots]
    /\ \A o \in Objects : cache[o].content \in Contents(o)

ResourcesTyped ==
    /\ vpa \in VPAs /\ vpaCache \in VPAs /\ vpaPending \in BOOLEAN
    /\ api \in APIServers /\ apiCache \in APIServers /\ apiPending \in BOOLEAN

WorkerTyped ==
    /\ queued \in BOOLEAN
    /\ pc \in {"idle", "get", "update", "put", "create"}
    /\ idx \in 1..Len(Order)
    /\ rvpa \in VPAs
    /\ held \in Slots /\ held.content \in Contents(Order[idx])
    /\ heldStale \in BOOLEAN

TypeOK ==
    /\ StoreTyped /\ CacheTyped /\ ResourcesTyped /\ WorkerTyped
    /\ cfg \in Configs /\ up \in BOOLEAN
    /\ env \in 0..MaxEnv /\ fails \in 0..MaxFails

-----------------------------------------------------------------------------
(* Effects of a write on the API server and its watchers.                  *)

\* EnqueueRequestForOwner maps an event to the controller owner of the old
\* or of the new version, by name; kinds that are not under Owns map to none.
Enqueues(o, old, new) == o \in Watched /\ (old.owner # 0 \/ new.owner # 0)

\* A write that changes nothing yields no new version and no event.
Write(o, slot) ==
    /\ store' = [store EXCEPT ![o] = slot]
    /\ pending' = [pending EXCEPT ![o] =
                      IF slot = store[o] THEN @
                      ELSE IF Enqueues(o, store[o], slot) THEN "enqueue"
                      ELSE IF @ = "none" THEN "silent" ELSE @]

\* A write by anybody but the reconciler: it outdates the copy the
\* reconciler may be holding of the object.
Disturb(o, slot) ==
    /\ Write(o, slot)
    /\ heldStale' = (heldStale \/ (pc = "put" /\ o = Order[idx] /\ slot # store[o]))
    /\ UNCHANGED <<vpa, api, cache, vpaCache, vpaPending, apiCache, apiPending,
                   cfg, up, queued, pc, idx, rvpa, held, fails>>

\* The reconciler's own progress.
Goto(label) ==
    /\ pc' = label
    /\ UNCHANGED <<idx, rvpa, held, heldStale, queued>>

\* Mutant: the error is swallowed.
ReturnForgets(requeue) ==
    /\ pc' = "idle" /\ idx' = 1 /\ rvpa' = NoVPA
    /\ held' = Absent /\ heldStale' = FALSE
    /\ queued' = queued

\* Reconcile returns; on an error the queue gets the key back.
Return(requeue) ==
    /\ pc' = "idle" /\ idx' = 1 /\ rvpa' = NoVPA
    /\ held' = Absent /\ heldStale' = FALSE
    /\ queued' = (queued \/ requeue)

\* On to the next object, or out of the last loop.
Advance ==
    IF idx = Len(Order)
    THEN Return(FALSE)
    ELSE /\ pc' = "get" /\ idx' = idx + 1
         /\ held' = Absent /\ heldStale' = FALSE
         /\ UNCHANGED <<rvpa, queued>>

\* The reply to an applied write arrives, or is lost and read as an error.
Reply ==
    \/ Advance /\ UNCHANGED fails
    \/ fails < MaxFails /\ fails' = fails + 1 /\ Return(TRUE)

-----------------------------------------------------------------------------
(* The operator process (cmd/main.go) and its informers.                   *)

Init ==
    /\ store = [o \in Objects |-> Absent]
    /\ vpa \in {NoVPA} \union
              {[live |-> TRUE, spec |-> s, uid |-> 1] : s \in VPASpecs}
    /\ api \in {a \in APIServers : a.live}
    /\ cache = store /\ pending = [o \in Objects |-> "none"]
    /\ vpaCache = vpa /\ vpaPending = FALSE
    /\ apiCache = api /\ apiPending = FALSE
    /\ cfg \in [version : Versions, tls : {NoProfile}]
    /\ up = FALSE /\ queued = FALSE
    /\ pc = "idle" /\ idx = 1 /\ rvpa = NoVPA
    /\ held = Absent /\ heldStale = FALSE
    /\ env = 0 /\ fails = 0

\* main exits (and is restarted) until it can read the APIServer config and
\* resolve its profile, honoured or not.  The manager then lists every
\* watched resource and the listed APIServer object enqueues the key.
Start ==
    /\ ~up /\ api.live /\ api.profile # Unresolvable
    /\ up' = TRUE /\ queued' = TRUE
    /\ \E v \in Versions :
          cfg' = [version |-> v, tls |-> IF api.honor THEN api.profile ELSE NoProfile]
    /\ cache' = store /\ pending' = [o \in Objects |-> "none"]
    /\ vpaCache' = vpa /\ vpaPending' = FALSE
    /\ apiCache' = api /\ apiPending' = FALSE
    /\ UNCHANGED <<clusterVars, workerVars, env, fails>>

\* An informer catches up with the API server and the controller's event
\* handlers run.
SyncObject(o) ==
    /\ up /\ pending[o] # "none"
    /\ cache' = [cache EXCEPT ![o] = store[o]]
    /\ pending' = [pending EXCEPT ![o] = "none"]
    /\ queued' = (queued \/ pending[o] = "enqueue")
    /\ UNCHANGED <<clusterVars, vpaCache, vpaPending, apiCache, apiPending,
                   cfg, up, workerVars, env, fails>>

\* For(VerticalPodAutoscalerController) with NamePredicate.
SyncVPA ==
    /\ up /\ vpaPending
    /\ vpaCache' = vpa /\ vpaPending' = FALSE /\ queued' = TRUE
    /\ UNCHANGED <<clusterVars, cache, pending, apiCache, apiPending,
                   cfg, up, workerVars, env, fails>>

\* Watches(APIServer, apiServerToVPA).
SyncAPIServer ==
    /\ up /\ apiPending
    /\ apiCache' = api /\ apiPending' = FALSE /\ queued' = TRUE
    /\ UNCHANGED <<clusterVars, cache, pending, vpaCache, vpaPending,
                   cfg, up, workerVars, env, fails>>

\* The informers replay their caches to the handlers every few hours.
Resync ==
    /\ Resyncs /\ up
    /\ queued' = TRUE
    /\ UNCHANGED <<clusterVars, cacheVars, cfg, up, workerVars, env, fails>>

-----------------------------------------------------------------------------
(* Reconcile, one step per call that reads the cache or writes.            *)

\* Mutant: a profile that is no longer honoured is not reset.
syncTLSProfileSticky(tls, a) ==
    IF a.live /\ a.honor /\ a.profile # Unresolvable THEN a.profile ELSE tls

\* syncTLSProfile: the profile is kept when the APIServer object is missing
\* or names a profile that cannot be resolved.
syncTLSProfile(tls, a) ==
    IF ~a.live \/ (a.honor /\ a.profile = Unresolvable) THEN tls
    ELSE IF a.honor THEN a.profile ELSE NoProfile

\* The worker takes the key, refreshes the TLS profile, reads the resource.
\* A missing resource ends the pass, a failed read puts the key back.
Reconcile ==
    /\ up /\ pc = "idle" /\ queued
    /\ cfg' = [cfg EXCEPT !.tls = syncTLSProfile(@, apiCache)]
    /\ \/ /\ vpaCache.live
          /\ pc' = "get" /\ rvpa' = vpaCache /\ queued' = FALSE
          /\ UNCHANGED fails
       \/ /\ ~vpaCache.live
          /\ queued' = FALSE
          /\ UNCHANGED <<pc, rvpa, fails>>
       \/ /\ fails < MaxFails /\ fails' = fails + 1
          /\ UNCHANGED <<pc, rvpa, queued>>
    /\ UNCHANGED <<clusterVars, cacheVars, up, idx, held, heldStale, env>>

\* Mutant: an existing policy is never compared.
MatchesAnyPolicy(o) ==
    o \in Policies \/ cache[o].content = Expected(o, rvpa.spec, cfg)

\* Mutant: objects of somebody else are left alone.
MatchesUncontrolled(o) ==
    cache[o].owner # rvpa.uid \/ cache[o].content = Expected(o, rvpa.spec, cfg)

\* The comparison that decides whether an existing object is left alone.
Matches(o) == cache[o].content = Expected(o, rvpa.spec, cfg)

\* Mutant: SetControllerReference is forgotten.
NewObjectUnowned(o) == [live |-> TRUE, content |-> Stored(o, rvpa.spec, cfg),
                        extra |-> 0, owner |-> 0]

\* Mutant: the expected object replaces the one that was read.
MergedObjectFresh(o) == [live |-> TRUE, content |-> Stored(o, rvpa.spec, cfg),
                         extra |-> 0, owner |-> rvpa.uid]

\* What is written: a new object with its controller reference set, the copy
\* that was read with the managed fields replaced, or, for an existing
\* policy, the new object without a controller reference.
NewObject(o) == [live |-> TRUE, content |-> Stored(o, rvpa.spec, cfg),
                 extra |-> 0, owner |-> rvpa.uid]

MergedObject(o) == [held EXCEPT !.content = Stored(o, rvpa.spec, cfg)]

NewPolicy(o) == [live |-> TRUE, content |-> Stored(o, rvpa.spec, cfg),
                 extra |-> 0, owner |-> 0]

\* The first read of an object.  A policy is compared at once, the other
\* kinds leave that to their Update method.
GetObject ==
    LET o == Order[idx] IN
    /\ pc = "get"
    /\ \/ ~cache[o].live /\ Goto("create")
       \/ cache[o].live /\ o \notin Policies /\ Goto("update")
       \/ cache[o].live /\ o \in Policies /\ Matches(o) /\ Advance
       \/ cache[o].live /\ o \in Policies /\ ~Matches(o) /\ Goto("put")
    /\ UNCHANGED <<clusterVars, cacheVars, cfg, up, env, fails>>

\* UpdateAutoscaler, UpdateWebhookService and UpdateCAConfigMap up to their
\* r.Update: they read the object again, and fail if it has vanished.
UpdateObject ==
    LET o == Order[idx] IN
    /\ pc = "update"
    /\ \/ ~cache[o].live /\ Return(TRUE)
       \/ cache[o].live /\ Matches(o) /\ Advance
       \/ /\ cache[o].live /\ ~Matches(o)
          /\ pc' = "put"
          /\ held' = cache[o] /\ heldStale' = (pending[o] # "none")
          /\ UNCHANGED <<idx, rvpa, queued>>
    /\ UNCHANGED <<clusterVars, cacheVars, cfg, up, env, fails>>

\* r.Create with the controller reference set, or AlreadyExists.
CreateObject ==
    LET o == Order[idx] IN
    /\ pc = "create"
    /\ \/ /\ ~store[o].live
          /\ Write(o, NewObject(o))
          /\ Reply
       \/ store[o].live /\ Return(TRUE) /\ UNCHANGED <<store, pending, fails>>
    /\ UNCHANGED <<vpa, api, cache, vpaCache, vpaPending, apiCache, apiPending,
                   cfg, up, env>>

\* r.Update of the merged copy, which carries the resource version it was
\* read at: the API server refuses it once the object changed or vanished.
PutObject ==
    LET o == Order[idx] IN
    /\ pc = "put" /\ o \notin Policies
    /\ \/ /\ ~heldStale
          /\ Write(o, MergedObject(o))
          /\ Reply
       \/ heldStale /\ Return(TRUE) /\ UNCHANGED <<store, pending, fails>>
    /\ UNCHANGED <<vpa, api, cache, vpaCache, vpaPending, apiCache, apiPending,
                   cfg, up, env>>

\* r.Update of a policy: the freshly built object, without resource version
\* (so it overwrites whatever is there) and without controller reference.
PutPolicy ==
    LET o == Order[idx] IN
    /\ pc = "put" /\ o \in Policies
    /\ \/ /\ store[o].live
          /\ Write(o, NewPolicy(o))
          /\ Reply
       \/ ~store[o].live /\ Return(TRUE) /\ UNCHANGED <<store, pending, fails>>
    /\ UNCHANGED <<vpa, api, cache, vpaCache, vpaPending, apiCache, apiPending,
                   cfg, up, env>>

\* Any call of the pass fails before it has an effect; Reconcile returns the
\* error and leaves the remaining objects alone.
CallFails ==
    /\ pc # "idle" /\ fails < MaxFails
    /\ fails' = fails + 1
    /\ Return(TRUE)
    /\ UNCHANGED <<clusterVars, cacheVars, cfg, up, env>>

-----------------------------------------------------------------------------
(* The rest of the cluster.                                                *)

\* The garbage collector deletes an object whose owner is gone.
Collect(o) ==
    /\ store[o].live /\ store[o].owner # 0
    /\ ~(vpa.live /\ vpa.uid = store[o].owner)
    /\ Disturb(o, Absent)
    /\ UNCHANGED env

Intervene == env < MaxEnv /\ env' = env + 1

\* A user creates, edits or deletes the resource.
SetVPA(new) ==
    /\ Intervene
    /\ vpa' = new /\ vpaPending' = TRUE
    /\ UNCHANGED <<store, api, cache, pending, vpaCache, apiCache, apiPending,
                   cfg, up, queued, workerVars, fails>>

CreateVPA == /\ ~vpa.live
             /\ \E s \in VPASpecs :
                   SetVPA([live |-> TRUE, spec |-> s, uid |-> vpa.uid + 1])

EditVPA == /\ vpa.live
           /\ \E s \in VPASpecs \ {vpa.spec} : SetVPA([vpa EXCEPT !.spec = s])

DeleteVPA == vpa.live /\ SetVPA([NoVPA EXCEPT !.uid = vpa.uid])

\* An administrator changes, deletes or recreates the APIServer config.
ChangeAPIServer ==
    /\ Intervene
    /\ api' \in APIServerConfigs \ {api}
    /\ apiPending' = TRUE
    /\ UNCHANGED <<store, vpa, cache, pending, vpaCache, vpaPending, apiCache,
                   cfg, up, queued, workerVars, fails>>

\* Somebody else writes fields of an object the operator does not manage
\* (the service CA, a controller's status) ...
TouchObject(o) ==
    /\ Intervene /\ store[o].live
    /\ Disturb(o, [store[o] EXCEPT !.extra = @ + 1])

\* ... overwrites what the operator does manage ...
EditObject(o) ==
    /\ Intervene /\ store[o].live /\ store[o].content # Foreign
    /\ Disturb(o, [store[o] EXCEPT !.content = Foreign])

\* ... or deletes the object.
DeleteObject(o) ==
    /\ Intervene /\ store[o].live
    /\ Disturb(o, Absent)

\* The process dies anywhere in a pass; its queue dies with it.
Crash ==
    /\ Intervene /\ up
    /\ up' = FALSE /\ queued' = FALSE
    /\ pc' = "idle" /\ idx' = 1 /\ rvpa' = NoVPA
    /\ held' = Absent /\ heldStale' = FALSE
    /\ UNCHANGED <<clusterVars, cacheVars, cfg, fails>>

-----------------------------------------------------------------------------
Operator == \/ Reconcile \/ GetObject \/ UpdateObject
            \/ CreateObject \/ PutObject \/ PutPolicy

Informers == \/ SyncVPA \/ SyncAPIServer \/ Resync
             \/ \E o \in Objects : SyncObject(o)

Environment == \/ CreateVPA \/ EditVPA \/ DeleteVPA \/ ChangeAPIServer \/ Crash
               \/ \E o \in Objects :
                     \/ TouchObject(o) \/ EditObject(o) \/ DeleteObject(o)
                     \/ Collect(o)

Next == Start \/ Operator \/ CallFails \/ Informers \/ Environment

Spec == Init /\ [][Next]_vars

\* The pod is restarted, the worker keeps serving the queue, informers
\* deliver, the garbage collector runs; users and failures owe us nothing.
Fairness ==
    /\ WF_vars(Start) /\ WF_vars(Operator) /\ WF_vars(Resync)
    /\ WF_vars(SyncVPA) /\ WF_vars(SyncAPIServer)
    /\ \A o \in Objects : WF_vars(SyncObject(o)) /\ WF_vars(Collect(o))

FairSpec == Spec /\ Fairness

-----------------------------------------------------------------------------
(* Correctness.                                                            *)

\* The worker is idle and the queue is empty.
Quiet == up /\ pc = "idle" /\ ~queued

\* The object is what the current resource and configuration ask for.
Reconciled(o) ==
    store[o].live /\ store[o].content = Stored(o, vpa.spec, cfg)

\* Reconcile's comparison and its scheduling together lose no change: when
\* the queue is empty and the informers have delivered the events about the
\* resource and about an object, that object exists and has the expected pod
\* spec, replicas, ports and release version.  A pass that used a stale copy
\* of the resource, skipped an object or was aborted must have left a key.
QuietMeansReconciled ==
    Quiet /\ ~vpaPending /\ vpa.live =>
        \A o \in Watched : pending[o] = "none" => Reconciled(o)

\* Config.TLSProfileSpec (syncTLSProfile) follows the cluster: once the
\* APIServer event is delivered and the queue is empty, the profile in use is
\* the honoured one, or nil if none is honoured, whatever profile was kept
\* while the cluster's could not be resolved.
TLSFollowsCluster ==
    Quiet /\ ~apiPending /\ api.live =>
        /\ ~api.honor => cfg.tls = NoProfile
        /\ api.honor /\ api.profile # Unresolvable => cfg.tls = api.profile

\* Every deployment, service and config map the operator created keeps a
\* controller reference to a resource that exists or existed: without it no
\* event about the object reaches the queue and nothing collects it.
OwnerKept ==
    \A o \in Watched : store[o].live => store[o].owner \in 1..vpa.uid

\* UpdateAutoscaler, UpdateWebhookService and UpdateCAConfigMap write back a
\* copy they read earlier: no write may undo what somebody else changed in
\* the object since, nor hand the object to another owner.
NoLostUpdate ==
    [][\A o \in Watched :
          store[o].live /\ store'[o].live =>
              /\ store'[o].extra >= store[o].extra
              /\ store'[o].owner = store[o].owner]_vars

\* main can resolve the cluster's TLS profile.
CanStart == api.live /\ api.profile # Unresolvable

\* Once users, crashes and failures stop, the operator runs whenever it can,
\* its queue drains and stays empty (no pass triggers the next for ever,
\* although a pod spec the API server completes with defaults never compares
\* equal), and every watched object is what the resource asks for.
Converges ==
    <>[](CanStart \/ up =>
            /\ Quiet
            /\ vpa.live => \A o \in Watched : Reconciled(o))

\* Objects of a deleted resource disappear, even those a pass that still saw
\* the resource in its cache created after the deletion.
DependentsCollected ==
    <>[](~vpa.live => \A o \in Watched : ~store[o].live)

\* What the comment in Reconcile says of a missing resource ("Owned objects
\* are automatically garbage collected") for every object the operator
\* creates for it, network policies included.
OwnedObjectsCollected ==
    <>[](~vpa.live => \A o \in Objects : ~store[o].live)

-----------------------------------------------------------------------------
(* The inductive invariant behind the safety properties.                   *)

\* A cached copy with no undelivered event is the stored one, and every
\* event about a watched object leads to a key.
CachesCurrent ==
    /\ \A o \in Objects : pending[o] = "none" => cache[o] = store[o]
    /\ \A o \in Watched : pending[o] # "silent"
    /\ ~vpaPending => vpaCache = vpa
    /\ ~apiPending => apiCache = api

\* UIDs only ever refer to resources that have been created.
UidsIssued ==
    /\ vpaCache.uid <= vpa.uid /\ rvpa.uid <= vpa.uid
    /\ vpa.live => vpa.uid > 0
    /\ vpaCache.live => vpaCache.uid > 0
    /\ pc # "idle" => rvpa.uid > 0
    /\ OwnerKept

\* The copy about to be written back is the stored object unless marked, and
\* a pass whose key is not queued again works on the cached resource.
PassConsistent ==
    /\ pc = "idle" => idx = 1
    /\ pc # "idle" => up
    /\ pc # "idle" /\ ~queued => rvpa = vpaCache
    /\ pc = "put" /\ Order[idx] \in Watched /\ ~heldStale =>
          held = store[Order[idx]] /\ held.live

\* The object is still ahead in the current pass.
Remaining(o) ==
    pc # "idle" /\ \E i \in idx..Len(Order) : Order[i] = o

\* Whatever is not as it should be is known to be so: a key is queued, an
\* event is on its way, or the current pass has yet to visit the object.
Covered ==
    up /\ vpa.live =>
        \A o \in Watched : \/ queued \/ vpaPending
                           \/ pending[o] = "enqueue"
                           \/ Remaining(o) \/ Reconciled(o)

TLSCovered ==
    up => queued \/ apiPending \/ cfg.tls = syncTLSProfile(cfg.tls, api)

IInv == /\ TypeOK /\ CachesCurrent /\ UidsIssued /\ PassConsistent
        /\ Covered /\ TLSCovered

-----------------------------------------------------------------------------
(* The reconciler implements DesiredState for the watched objects.         *)

\* NoContent is the content of no wanted object, so it stands for no wish.
Wanted == IF vpa.live THEN [o \in Watched |-> Stored(o, vpa.spec, cfg)] ELSE NoContent

Actual == [o \in Watched |-> store[o]]

\* Nothing is queued, worked on or undelivered.
Settled == /\ Quiet /\ ~vpaPending
           /\ \A o \in Watched : pending[o] = "none"

Desired == INSTANCE DesiredState
              WITH Objects <- Watched, Nothing <- NoContent,
                   wanted <- Wanted, actual <- Actual, settled <- Settled

\* Caches, the queue, aborted passes, lost replies and restarts do not show:
\* seen from outside, Reconcile and its scheduling are a reconciler that comes
\* to rest only on the wanted objects and whose rest every change ends.
ImplementsDesired == Desired!Spec
=============================================================================
