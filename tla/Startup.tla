------------------------------ MODULE Startup -------------------------------
(***************************************************************************)
(* cmd/main.go and what it decides once per process: the configuration     *)
(* from the environment, the control plane topology, and the TLS settings  *)
(* of the metrics endpoint, which cannot change while the process runs.    *)
(* The SecurityProfileWatcher (a vendored controller) ends the process     *)
(* when the cluster's TLS settings move away from those it started with;   *)
(* the reconciler's syncTLSProfile follows the same object for the webhook *)
(* without a restart.  Both run only while the process leads.  A           *)
(* reconciler pass is one step here: the module Reconciler has its details.*)
(***************************************************************************)
EXTENDS Naturals

CONSTANTS
    Profiles,      \* TLS profiles the APIServer config can name
    NoProfile,     \* no profile is applied
    Unresolvable,  \* a profile GetTLSProfileSpec rejects
    Namespaces,    \* values of the two namespace variables
    AllNamespaces, \* an empty WATCH_NAMESPACE: every namespace is watched
    Unset,         \* an environment variable that is not set
    NotANumber,    \* a verbosity strconv.Atoi rejects
    MaxEnv,        \* bound: changes of the APIServer config, crashes
    MaxFails       \* bound: failing reads of the topology

ASSUME StartupAssumption ==
    /\ Profiles # {}
    /\ Unresolvable \notin Profiles \union {NoProfile} /\ NoProfile \notin Profiles
    /\ MaxEnv \in Nat /\ MaxFails \in Nat

VARIABLES
    secure,    \* the --metrics-secure flag
    settings,  \* the environment variables of the current or next process
    hosted,    \* the Infrastructure object says ExternalTopologyMode
    api,       \* the cluster's APIServer config
    apiCache, apiEvent,  \* its cached copy, and an undelivered event
    phase,     \* of the process
    config,    \* operator.Config
    external,  \* isExternalControlPlane
    misread,   \* history: this process could not read the topology
    metrics,   \* the TLS profile of the metrics endpoint
    honor,     \* shouldHonorClusterTLSProfile, captured by the callbacks
    watcher,   \* the profile and policy the watcher compares with
    watchKey,  \* the watcher's key is queued
    tls,       \* the reconciler's Config.TLSProfileSpec
    key,       \* the reconciler's key is queued
    cancelled, \* the manager's context
    operand,   \* what the admission controller's deployment was given
    env, fails

given   == <<secure, hosted>>
cached  == <<apiCache, apiEvent>>
decided == <<config, external, misread, metrics, honor>>
budgets == <<env, fails>>
vars == <<given, settings, api, cached, phase, decided, watcher, watchKey, tls, key,
          cancelled, operand, budgets>>

\* The values the API knows, and one it may know in the future.
Policies == {"NoOpinion", "LegacyAdheringComponentsOnly", "StrictAllComponents",
             "Future"}

APIServers == [live : BOOLEAN, policy : Policies,
               profile : Profiles \union {Unresolvable}]

\* The variables ConfigFromEnvironment looks up; the others are passed on
\* like the namespaces.
Settings == [WatchNamespace : Namespaces \union {AllNamespaces, Unset},
             Namespace      : Namespaces \union {Unset},
             Verbosity      : {2, NotANumber, Unset}]

NewConfig == [WatchNamespace |-> "openshift-vertical-pod-autoscaler",
              Namespace      |-> "openshift-vertical-pod-autoscaler",
              Verbosity      |-> 1]

Configs == [WatchNamespace : Namespaces \union {AllNamespaces, NewConfig.WatchNamespace},
            Namespace      : Namespaces \union {NewConfig.Namespace},
            Verbosity      : {1, 2}]

\* A verbosity that is no number falls back to the default.
ConfigFromEnvironment(e) ==
    [f \in DOMAIN NewConfig |->
        IF e[f] \in {Unset, NotANumber} THEN NewConfig[f] ELSE e[f]]

\* Unknown policies are honoured.
ShouldHonorClusterTLSProfile(policy) ==
    policy \notin {"NoOpinion", "LegacyAdheringComponentsOnly"}

\* The profile an endpoint has to apply under the cluster's settings.
Effective(a) == IF ShouldHonorClusterTLSProfile(a.policy) THEN a.profile ELSE NoProfile

Nothing == [tls |-> NoProfile, worker |-> FALSE, verbosity |-> 0]

TypeOK ==
    /\ secure \in BOOLEAN /\ settings \in Settings /\ hosted \in BOOLEAN
    /\ api \in APIServers /\ apiCache \in APIServers /\ apiEvent \in BOOLEAN
    /\ phase \in {"down", "booted", "standby", "leading"}
    /\ external \in BOOLEAN /\ misread \in BOOLEAN /\ honor \in BOOLEAN
    /\ metrics \in Profiles \union {NoProfile}
    /\ watcher \in [profile : Profiles, policy : Policies]
    /\ tls \in Profiles \union {NoProfile}
    /\ watchKey \in BOOLEAN /\ key \in BOOLEAN /\ cancelled \in BOOLEAN
    /\ config \in Configs
    /\ operand \in [tls : Profiles \union {NoProfile}, worker : BOOLEAN, verbosity : 0..2]
    /\ env \in 0..MaxEnv /\ fails \in 0..MaxFails

Init ==
    /\ secure \in BOOLEAN /\ settings \in Settings /\ hosted \in BOOLEAN
    /\ api \in {a \in APIServers : a.live}
    /\ apiCache = api /\ apiEvent = FALSE
    /\ phase = "down" /\ config = NewConfig
    /\ external = FALSE /\ misread = FALSE
    /\ metrics = NoProfile /\ honor = FALSE
    /\ watcher = [profile |-> CHOOSE p \in Profiles : TRUE, policy |-> "NoOpinion"]
    /\ watchKey = FALSE /\ tls = NoProfile /\ key = FALSE
    /\ cancelled = FALSE /\ operand = Nothing
    /\ env = 0 /\ fails = 0

-----------------------------------------------------------------------------
(* The process.                                                            *)

\* main reads the APIServer config past the caches and exits, to be started
\* again, unless it resolves; everything that depends on it is fixed now.
Boot ==
    /\ phase = "down" /\ phase' = "booted"
    /\ api.live /\ api.profile # Unresolvable
    /\ honor' = ShouldHonorClusterTLSProfile(api.policy)
    /\ metrics' = IF secure /\ honor' THEN api.profile ELSE NoProfile
    /\ tls' = IF honor' THEN api.profile ELSE NoProfile
    /\ watcher' = [profile |-> api.profile, policy |-> api.policy]
    /\ config' = ConfigFromEnvironment(settings)
    /\ UNCHANGED <<given, settings, api, cached, external, misread, watchKey, key,
                   cancelled, operand, budgets>>

\* A read that fails counts as the standard topology.
IsExternalControlPlane(readable) == readable /\ hosted

\* The topology is read and the controllers are set up.
DetectTopology ==
    /\ phase = "booted" /\ phase' = "standby"
    /\ \/ misread' = FALSE /\ UNCHANGED fails
       \/ misread' = TRUE /\ fails < MaxFails /\ fails' = fails + 1
    /\ external' = IsExternalControlPlane(~misread')
    /\ UNCHANGED <<given, settings, api, cached, config, metrics, honor, watcher, watchKey,
                   tls, key, cancelled, operand, env>>

\* The lease is acquired: the controllers start, which lists what they watch
\* and queues a key for everything listed.
Lead ==
    /\ phase = "standby" /\ phase' = "leading"
    /\ apiCache' = api /\ apiEvent' = FALSE
    /\ watchKey' = (secure /\ api.live) /\ key' = TRUE
    /\ UNCHANGED <<given, settings, api, decided, watcher, tls, cancelled, operand, budgets>>

SyncAPIServer ==
    /\ phase = "leading" /\ apiEvent
    /\ apiCache' = api /\ apiEvent' = FALSE
    /\ watchKey' = secure /\ key' = TRUE
    /\ UNCHANGED <<given, settings, api, phase, decided, watcher, tls, cancelled,
                   operand, budgets>>

\* main's callbacks: whether the context is cancelled.
OnProfileChange(old, new) == old # new /\ honor

\* Mutant: the guard of the other callback is used here too.
OnAdherencePolicyChangeHonored(old, new) ==
    ShouldHonorClusterTLSProfile(old) # ShouldHonorClusterTLSProfile(new) /\ honor

OnAdherencePolicyChange(old, new) ==
    ShouldHonorClusterTLSProfile(old) # ShouldHonorClusterTLSProfile(new)

\* The watcher's Reconcile.  A profile that does not resolve is an error, so
\* the key is retried without any effect until the object changes.
WatchProfile ==
    /\ phase = "leading" /\ watchKey
    /\ \/ ~apiCache.live /\ UNCHANGED <<watcher, cancelled>>
       \/ /\ apiCache.live /\ apiCache.profile # Unresolvable
          /\ cancelled' = \/ cancelled
                          \/ OnProfileChange(watcher.profile, apiCache.profile)
                          \/ OnAdherencePolicyChange(watcher.policy, apiCache.policy)
          /\ watcher' = [profile |-> apiCache.profile, policy |-> apiCache.policy]
    /\ watchKey' = FALSE
    /\ UNCHANGED <<given, settings, api, cached, phase, decided, tls, key, operand, budgets>>

\* Mutant: the profile is refreshed after the pass instead of before it.
PassLate ==
    /\ phase = "leading" /\ key
    /\ tls' = IF ~apiCache.live \/ Effective(apiCache) = Unresolvable THEN tls
              ELSE Effective(apiCache)
    /\ operand' = [tls |-> tls, worker |-> external, verbosity |-> config.Verbosity]
    /\ key' = FALSE
    /\ UNCHANGED <<given, settings, api, cached, phase, decided, watcher, watchKey,
                   cancelled, budgets>>

\* The cache serves the operands' namespace.
Served(c) == c.WatchNamespace \in {AllNamespaces, c.Namespace}

\* Mutant: a read the cache refuses is taken for an object that is not there,
\* which needs no retry.
PassNotFound ==
    /\ phase = "leading" /\ key /\ key' = FALSE
    /\ tls' = IF ~apiCache.live \/ Effective(apiCache) = Unresolvable THEN tls
              ELSE Effective(apiCache)
    /\ operand' = IF Served(config)
                  THEN [tls |-> tls', worker |-> external, verbosity |-> config.Verbosity]
                  ELSE operand
    /\ UNCHANGED <<given, settings, api, cached, phase, decided, watcher, watchKey,
                   cancelled, budgets>>

\* Reconcile: syncTLSProfile, then the deployments.  Where the cache does not
\* serve the operands' namespace every read of a pass fails and the key is
\* retried.
Pass ==
    /\ phase = "leading" /\ key
    /\ tls' = IF ~apiCache.live \/ Effective(apiCache) = Unresolvable THEN tls
              ELSE Effective(apiCache)
    /\ IF Served(config)
       THEN /\ key' = FALSE
            /\ operand' = [tls |-> tls', worker |-> external,
                           verbosity |-> config.Verbosity]
       ELSE UNCHANGED <<key, operand>>
    /\ UNCHANGED <<given, settings, api, cached, phase, decided, watcher, watchKey,
                   cancelled, budgets>>

Stop ==
    /\ phase' = "down" /\ cancelled' = FALSE
    /\ watchKey' = FALSE /\ key' = FALSE
    /\ UNCHANGED <<given, api, cached, decided, watcher, tls, operand, fails>>

\* mgr.Start returns once the context is cancelled, and main with it.
Exit == phase = "leading" /\ cancelled /\ Stop /\ UNCHANGED <<settings, env>>

-----------------------------------------------------------------------------
Intervene == env < MaxEnv /\ env' = env + 1

ChangeAPIServer ==
    /\ Intervene
    /\ api' \in {a \in APIServers : a.live} \union {[api EXCEPT !.live = FALSE]}
    /\ api' # api /\ apiEvent' = TRUE
    /\ UNCHANGED <<given, settings, apiCache, phase, decided, watcher, watchKey, tls,
                   key, cancelled, operand, fails>>

\* The pod is killed, or replaced by one with another environment.
Crash == Intervene /\ phase # "down" /\ Stop /\ settings' \in Settings

Operator == Boot \/ DetectTopology \/ Lead \/ Exit

Next == Operator \/ SyncAPIServer \/ WatchProfile \/ Pass \/ ChangeAPIServer \/ Crash

Spec == Init /\ [][Next]_vars

\* The kubelet restarts the process, the lease becomes free, the informer
\* delivers, both workers serve their queues.
Fairness == /\ WF_vars(Operator) /\ WF_vars(SyncAPIServer)
            /\ WF_vars(WatchProfile) /\ WF_vars(Pass)

FairSpec == Spec /\ Fairness

-----------------------------------------------------------------------------
(* Correctness.                                                            *)

\* The metrics endpoint and the webhook never come to rest on different TLS
\* settings, or on settings the cluster has left: when nothing is queued,
\* undelivered or shutting down, both apply the profile the APIServer config
\* asks for, whichever of policy and profile changed, in which order, and
\* whether before or after the process began to lead.
EndpointsAgree ==
    /\ phase = "leading" /\ ~cancelled /\ ~apiEvent /\ api.live
    /\ secure /\ ~watchKey /\ ~key
    => metrics = Effective(api) /\ tls = Effective(api)

\* Nothing an earlier process gave the operands outlives it: once the queue is
\* empty they have this process's TLS profile, verbosity and placement, which
\* is on workers exactly if the control plane is hosted and this process could
\* read so.  An unreadable topology hence costs a hosted cluster the placement
\* for as long as the process runs, even if the one before had it right, and
\* no longer; and a process whose cache does not serve the operands' namespace
\* never gets as far as an empty queue.
OperandsCurrent ==
    phase = "leading" /\ ~key =>
        operand = [tls |-> tls, worker |-> hosted /\ ~misread,
                   verbosity |-> ConfigFromEnvironment(settings).Verbosity]

\* main can resolve the cluster's TLS profile.
CanBoot == api.live /\ api.profile # Unresolvable

\* The two namespace variables fit together.
Coherent == Served(ConfigFromEnvironment(settings))

\* Whatever happened before, a cluster whose settings resolve ends up with a
\* leading operator that does not restart any more, a metrics endpoint that
\* applies those settings, and operands that were given them, the verbosity of
\* the environment and, unless the last process could not read it, the
\* placement of the topology.
SettingsArrive ==
    <>[](CanBoot =>
            /\ phase = "leading" /\ ~cancelled
            /\ secure => metrics = Effective(api)
            /\ Coherent => /\ operand.tls = Effective(api)
                           /\ ~misread => operand.worker = hosted
                           /\ operand.verbosity = IF settings.Verbosity = 2 THEN 2 ELSE 1)

-----------------------------------------------------------------------------
(* The inductive invariant behind EndpointsAgree and OperandsCurrent.      *)

\* Until the context is cancelled the watcher's record describes what the
\* metrics endpoint was started with.
WatcherCurrent ==
    phase # "down" /\ ~cancelled =>
        /\ honor = ShouldHonorClusterTLSProfile(watcher.policy)
        /\ secure => metrics = IF honor THEN watcher.profile ELSE NoProfile

\* Without an undelivered event the cache is current, and without a key a
\* worker has acted on what the cache holds.
KeysKept ==
    phase = "leading" =>
        /\ ~apiEvent => apiCache = api
        /\ secure /\ ~watchKey /\ apiCache.live =>
              watcher = [profile |-> apiCache.profile, policy |-> apiCache.policy]
        /\ ~key /\ apiCache.live /\ Effective(apiCache) # Unresolvable =>
              tls = Effective(apiCache)

\* What the process decided when it started, and that without a key the
\* operands have been given it.
DecisionsKept ==
    /\ phase # "down" => config = ConfigFromEnvironment(settings)
    /\ phase \in {"standby", "leading"} => external = (hosted /\ ~misread)
    /\ phase = "leading" /\ ~key =>
          operand = [tls |-> tls, worker |-> external, verbosity |-> config.Verbosity]

IInv == TypeOK /\ WatcherCurrent /\ KeysKept /\ DecisionsKept
=============================================================================
