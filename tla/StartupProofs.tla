--------------------------- MODULE StartupProofs ----------------------------
(* Proofs about Startup, for every set of profiles and namespaces and every *)
(* bound: the metrics endpoint and the webhook agree with the cluster, and  *)
(* the operands with the process that leads.                                *)
EXTENDS Startup, TLAPS

USE StartupAssumption

-----------------------------------------------------------------------------
(* Types.                                                                  *)

\* Every environment yields a configuration.
LEMMA ConfigTyped ==
    ASSUME NEW e \in Settings
    PROVE  ConfigFromEnvironment(e) \in Configs
<1>1. DOMAIN NewConfig = {"WatchNamespace", "Namespace", "Verbosity"}
  BY DEF NewConfig
<1>2. /\ NewConfig.Verbosity = 1
      /\ e["WatchNamespace"] \in Namespaces \union {AllNamespaces, Unset}
      /\ e["Namespace"] \in Namespaces \union {Unset}
      /\ e["Verbosity"] \in {2, NotANumber, Unset}
  BY DEF NewConfig, Settings
<1>3. ConfigFromEnvironment(e) =
         [WatchNamespace |-> IF e["WatchNamespace"] \in {Unset, NotANumber}
                             THEN NewConfig["WatchNamespace"] ELSE e["WatchNamespace"],
          Namespace |-> IF e["Namespace"] \in {Unset, NotANumber}
                        THEN NewConfig["Namespace"] ELSE e["Namespace"],
          Verbosity |-> IF e["Verbosity"] \in {Unset, NotANumber}
                        THEN NewConfig["Verbosity"] ELSE e["Verbosity"]]
  BY <1>1 DEF ConfigFromEnvironment
<1>. HIDE DEF NewConfig
<1>. QED
  BY <1>2, <1>3 DEF Configs

\* The profile an endpoint has to apply is one or none, if it resolves.
LEMMA EffectiveTyped ==
    ASSUME NEW a \in APIServers, Effective(a) # Unresolvable
    PROVE  Effective(a) \in Profiles \union {NoProfile}
BY DEF Effective, APIServers

\* Every initial state is well-typed.
LEMMA TypeInit == Init => TypeOK
<1>. SUFFICES ASSUME Init PROVE TypeOK
  OBVIOUS
<1>1. /\ api \in APIServers /\ apiCache \in APIServers
      /\ metrics \in Profiles \union {NoProfile} /\ tls \in Profiles \union {NoProfile}
  BY DEF Init
<1>2. env \in 0..MaxEnv /\ fails \in 0..MaxFails
  BY DEF Init
<1>3. /\ secure \in BOOLEAN /\ settings \in Settings /\ hosted \in BOOLEAN
      /\ external \in BOOLEAN /\ misread \in BOOLEAN /\ honor \in BOOLEAN
      /\ apiEvent \in BOOLEAN
      /\ watchKey \in BOOLEAN /\ key \in BOOLEAN /\ cancelled \in BOOLEAN
      /\ phase \in {"down", "booted", "standby", "leading"}
  BY DEF Init
<1>4. watcher \in [profile : Profiles, policy : Policies]
  <2>1. (CHOOSE p \in Profiles : TRUE) \in Profiles
    OBVIOUS
  <2>2. "NoOpinion" \in Policies
    BY DEF Policies
  <2>. QED
    BY <2>1, <2>2 DEF Init
<1>5. config \in Configs
  BY DEF Init, Configs, NewConfig
<1>6. operand \in [tls : Profiles \union {NoProfile}, worker : BOOLEAN, verbosity : 0..2]
  BY DEF Init, Nothing
<1>. QED
  BY <1>1, <1>2, <1>3, <1>4, <1>5, <1>6 DEF TypeOK

\* Every step keeps the variables well-typed.
LEMMA TypeStep == TypeOK /\ [Next]_vars => TypeOK'
<1>. SUFFICES ASSUME TypeOK, [Next]_vars PROVE TypeOK'
  OBVIOUS
<1>1. CASE UNCHANGED vars
  BY <1>1 DEF TypeOK, vars, given, cached, decided, budgets
<1>2. CASE Boot
  <2>1. api.profile \in Profiles /\ api.policy \in Policies
    BY <1>2 DEF Boot, TypeOK, APIServers
  <2>2. /\ metrics' \in Profiles \union {NoProfile} /\ tls' \in Profiles \union {NoProfile}
        /\ watcher' \in [profile : Profiles, policy : Policies]
    BY <1>2, <2>1 DEF Boot
  <2>3. honor' \in BOOLEAN
    BY <1>2 DEF Boot, ShouldHonorClusterTLSProfile
  <2>4. config' \in Configs /\ phase' \in {"down", "booted", "standby", "leading"}
    BY <1>2, ConfigTyped DEF Boot, TypeOK
  <2>5. UNCHANGED <<secure, settings, hosted, api, apiCache, apiEvent, external, misread,
                    watchKey, key, cancelled, operand, env, fails>>
    BY <1>2 DEF Boot, given, cached, budgets
  <2>. QED
    BY <2>2, <2>3, <2>4, <2>5 DEF TypeOK
<1>3. CASE DetectTopology
  <2>1. external' \in BOOLEAN /\ misread' \in BOOLEAN
    <3>1. /\ misread' = FALSE \/ misread' = TRUE
          /\ external' = (~misread' /\ hosted)
      BY <1>3, Zenon DEF DetectTopology, IsExternalControlPlane
    <3>. QED
      BY <3>1
  <2>2. fails' \in 0..MaxFails
    <3>1. \/ fails' = fails
          \/ fails < MaxFails /\ fails' = fails + 1
      BY <1>3, Zenon DEF DetectTopology
    <3>. QED
      BY <3>1 DEF TypeOK
  <2>3. /\ phase' \in {"down", "booted", "standby", "leading"}
        /\ UNCHANGED <<secure, settings, hosted, api, apiCache, apiEvent, config, metrics,
                       honor, watcher, watchKey, tls, key, cancelled, operand, env>>
    BY <1>3 DEF DetectTopology, given, cached
  <2>. QED
    BY <2>1, <2>2, <2>3 DEF TypeOK
<1>4. CASE Lead \/ SyncAPIServer
  <2>1. /\ apiCache' = api /\ apiEvent' \in BOOLEAN /\ watchKey' \in BOOLEAN
        /\ key' \in BOOLEAN /\ phase' \in {"down", "booted", "standby", "leading"}
    BY <1>4 DEF Lead, SyncAPIServer, TypeOK
  <2>2. UNCHANGED <<secure, settings, hosted, api, config, external, misread, metrics, honor,
                    watcher, tls, cancelled, operand, env, fails>>
    BY <1>4 DEF Lead, SyncAPIServer, given, decided, budgets
  <2>. QED
    BY <2>1, <2>2 DEF TypeOK
<1>5. CASE WatchProfile
  <2>1. watcher' \in [profile : Profiles, policy : Policies]
    <3>1. \/ watcher' = watcher
          \/ /\ apiCache.profile # Unresolvable
             /\ watcher' = [profile |-> apiCache.profile, policy |-> apiCache.policy]
      BY <1>5, Zenon DEF WatchProfile
    <3>2. /\ apiCache.profile \in Profiles \union {Unresolvable}
          /\ apiCache.policy \in Policies
      BY DEF TypeOK, APIServers
    <3>. QED
      BY <3>1, <3>2 DEF TypeOK
  <2>2. cancelled' \in BOOLEAN /\ watchKey' \in BOOLEAN
    <3>1. cancelled \in BOOLEAN
      BY DEF TypeOK
    <3>2. /\ watchKey' = FALSE
          /\ \/ cancelled' = cancelled
             \/ cancelled' = \/ cancelled
                             \/ OnProfileChange(watcher.profile, apiCache.profile)
                             \/ OnAdherencePolicyChange(watcher.policy, apiCache.policy)
      BY <1>5 DEF WatchProfile
    <3>. QED
      BY <3>1, <3>2
  <2>3. UNCHANGED <<secure, settings, hosted, api, apiCache, apiEvent, phase, config,
                    external, misread, metrics, honor, tls, key, operand, env, fails>>
    BY <1>5 DEF WatchProfile, given, cached, decided, budgets
  <2>. QED
    BY <2>1, <2>2, <2>3 DEF TypeOK
<1>6. CASE Pass
  <2>1. tls' \in Profiles \union {NoProfile}
    BY <1>6, EffectiveTyped DEF Pass, TypeOK
  <2>2. operand' \in [tls : Profiles \union {NoProfile}, worker : BOOLEAN, verbosity : 0..2]
    <3>1. config.Verbosity \in 0..2 /\ external \in BOOLEAN
      BY DEF TypeOK, Configs
    <3>2. [tls |-> tls', worker |-> external, verbosity |-> config.Verbosity]
             \in [tls : Profiles \union {NoProfile}, worker : BOOLEAN, verbosity : 0..2]
      BY <2>1, <3>1
    <3>3. \/ operand' = [tls |-> tls', worker |-> external, verbosity |-> config.Verbosity]
          \/ operand' = operand
      BY <1>6 DEF Pass
    <3>. QED
      BY <3>2, <3>3 DEF TypeOK
  <2>3. key' \in BOOLEAN
    BY <1>6 DEF Pass, TypeOK
  <2>4. UNCHANGED <<secure, settings, hosted, api, apiCache, apiEvent, phase, config,
                    external, misread, metrics, honor, watcher, watchKey, cancelled, env,
                    fails>>
    BY <1>6 DEF Pass, given, cached, decided, budgets
  <2>. QED
    BY <2>1, <2>2, <2>3, <2>4 DEF TypeOK
<1>7. CASE Exit \/ Crash
  <2>1. env' \in 0..MaxEnv
    BY <1>7 DEF Exit, Crash, Intervene, TypeOK
  <2>2. /\ watchKey' \in BOOLEAN /\ key' \in BOOLEAN /\ cancelled' \in BOOLEAN
        /\ phase' \in {"down", "booted", "standby", "leading"}
        /\ settings' \in Settings
        /\ UNCHANGED <<secure, hosted, api, apiCache, apiEvent, config, external, misread,
                       metrics, honor, watcher, tls, operand, fails>>
    BY <1>7 DEF Exit, Crash, Stop, given, cached, decided, TypeOK
  <2>. QED
    BY <2>1, <2>2 DEF TypeOK
<1>8. CASE ChangeAPIServer
  <2>1. api' \in APIServers /\ apiEvent' \in BOOLEAN
    <3>1. [api EXCEPT !.live = FALSE] \in APIServers
      BY DEF TypeOK, APIServers
    <3>. QED
      BY <1>8, <3>1 DEF ChangeAPIServer
  <2>2. env' \in 0..MaxEnv
    BY <1>8 DEF ChangeAPIServer, Intervene, TypeOK
  <2>3. UNCHANGED <<secure, settings, hosted, apiCache, phase, config, external, misread,
                    metrics, honor, watcher, watchKey, tls, key, cancelled, operand, fails>>
    BY <1>8 DEF ChangeAPIServer, given, decided
  <2>. QED
    BY <2>1, <2>2, <2>3 DEF TypeOK
<1>. QED
  BY <1>1, <1>2, <1>3, <1>4, <1>5, <1>6, <1>7, <1>8 DEF Next, Operator

-----------------------------------------------------------------------------
(* The inductive invariant, one conjunct at a time.                        *)

\* Until the context is cancelled the watcher knows what the process started
\* with, whatever it compares.
LEMMA WatcherStep == IInv /\ [Next]_vars => WatcherCurrent'
<1>. SUFFICES ASSUME IInv, [Next]_vars PROVE WatcherCurrent'
  OBVIOUS
<1>. DEFINE Same == UNCHANGED <<secure, honor, metrics, watcher>>
<1>1. CASE Boot
  <2>1. /\ watcher'.profile = api.profile /\ watcher'.policy = api.policy
        /\ honor' = ShouldHonorClusterTLSProfile(api.policy) /\ secure' = secure
        /\ metrics' = IF secure /\ honor' THEN api.profile ELSE NoProfile
    BY <1>1 DEF Boot, given
  <2>. QED
    BY <2>1 DEF WatcherCurrent
<1>2. CASE WatchProfile
  <2>. SUFFICES ASSUME ~cancelled' PROVE WatcherCurrent'
    BY DEF WatcherCurrent
  <2>1. CASE ~apiCache.live /\ UNCHANGED <<watcher, cancelled>>
    BY <1>2, <2>1 DEF WatchProfile, given, decided, IInv, WatcherCurrent
  <2>2. CASE apiCache.live /\ apiCache.profile # Unresolvable
    <3>1. /\ ~cancelled
          /\ ~OnProfileChange(watcher.profile, apiCache.profile)
          /\ ~OnAdherencePolicyChange(watcher.policy, apiCache.policy)
      BY <1>2, <2>2 DEF WatchProfile
    <3>2. /\ watcher'.profile = apiCache.profile /\ watcher'.policy = apiCache.policy
          /\ UNCHANGED <<secure, honor, metrics, phase>>
      BY <1>2, <2>2 DEF WatchProfile, given, decided
    <3>3. /\ honor = ShouldHonorClusterTLSProfile(watcher.policy)
          /\ secure => metrics = IF honor THEN watcher.profile ELSE NoProfile
      BY <1>2, <3>1 DEF IInv, WatcherCurrent, WatchProfile
    <3>4. /\ honor => watcher.profile = apiCache.profile
          /\ ShouldHonorClusterTLSProfile(watcher.policy)
                = ShouldHonorClusterTLSProfile(apiCache.policy)
      BY <3>1 DEF OnProfileChange, OnAdherencePolicyChange, ShouldHonorClusterTLSProfile
    <3>. QED
      BY <3>2, <3>3, <3>4 DEF WatcherCurrent
  <2>. QED
    BY <1>2, <2>1, <2>2, Zenon DEF WatchProfile
<1>3. CASE Exit \/ Crash
  BY <1>3 DEF Exit, Crash, Stop, WatcherCurrent
<1>4. CASE Same /\ UNCHANGED cancelled /\ phase # "down"
  BY <1>4 DEF IInv, WatcherCurrent
<1>5. CASE Same /\ UNCHANGED <<cancelled, phase>>
  BY <1>5 DEF IInv, WatcherCurrent
<1>6. UNCHANGED vars \/ SyncAPIServer \/ Pass \/ ChangeAPIServer =>
         Same /\ UNCHANGED <<cancelled, phase>>
  BY DEF vars, SyncAPIServer, Pass, ChangeAPIServer, given, decided
<1>7. DetectTopology \/ Lead => Same /\ UNCHANGED cancelled /\ phase # "down"
  BY Zenon DEF DetectTopology, Lead, given, decided
<1>. QED
  BY <1>1, <1>2, <1>3, <1>4, <1>5, <1>6, <1>7 DEF Next, Operator

\* Without a key or an event both workers have acted on the current object.
LEMMA KeysStep == IInv /\ [Next]_vars => KeysKept'
<1>. SUFFICES ASSUME IInv, [Next]_vars PROVE KeysKept'
  OBVIOUS
<1>1. CASE Boot \/ DetectTopology \/ Exit \/ Crash
  <2>1. phase' # "leading"
    BY <1>1 DEF Boot, DetectTopology, Exit, Crash, Stop
  <2>. QED
    BY <2>1 DEF KeysKept
<1>2. CASE Lead \/ SyncAPIServer
  <2>1. /\ apiCache' = api' /\ key' = TRUE /\ secure' = secure /\ api' = api
        /\ watchKey' = (secure /\ api.live) \/ watchKey' = secure
    BY <1>2 DEF Lead, SyncAPIServer, given
  <2>2. secure /\ api.live => watchKey'
    BY <2>1, Zenon
  <2>. QED
    BY <2>1, <2>2 DEF KeysKept
<1>3. CASE WatchProfile
  <2>1. /\ phase = "leading" /\ UNCHANGED <<secure, api, apiCache, apiEvent, tls, key>>
    BY <1>3 DEF WatchProfile, given, cached
  <2>2. apiCache.live =>
           watcher' = [profile |-> apiCache.profile, policy |-> apiCache.policy]
    BY <1>3, Zenon DEF WatchProfile
  <2>3. Effective(apiCache)' = Effective(apiCache)
    BY <2>1 DEF Effective
  <2>. QED
    BY <2>1, <2>2, <2>3 DEF KeysKept, IInv
<1>4. CASE Pass
  <2>1. /\ phase = "leading" /\ UNCHANGED <<secure, api, apiCache, apiEvent, watcher, watchKey>>
        /\ tls' = IF ~apiCache.live \/ Effective(apiCache) = Unresolvable THEN tls
                  ELSE Effective(apiCache)
    BY <1>4 DEF Pass, given, cached
  <2>2. Effective(apiCache)' = Effective(apiCache)
    BY <2>1 DEF Effective
  <2>. QED
    BY <2>1, <2>2 DEF KeysKept, IInv
<1>5. CASE ChangeAPIServer
  <2>1. /\ apiEvent' = TRUE
        /\ UNCHANGED <<phase, secure, apiCache, watcher, watchKey, tls, key>>
    BY <1>5 DEF ChangeAPIServer, given
  <2>2. Effective(apiCache)' = Effective(apiCache)
    BY <2>1 DEF Effective
  <2>. QED
    BY <2>1, <2>2 DEF KeysKept, IInv
<1>6. CASE UNCHANGED vars
  <2>1. UNCHANGED <<phase, secure, api, apiCache, apiEvent, watcher, watchKey, tls, key>>
    BY <1>6 DEF vars, given, cached
  <2>2. Effective(apiCache)' = Effective(apiCache)
    BY <2>1 DEF Effective
  <2>. QED
    BY <2>1, <2>2 DEF KeysKept, IInv
<1>. QED
  BY <1>1, <1>2, <1>3, <1>4, <1>5, <1>6 DEF Next, Operator

\* The process keeps to what it decided, and its last pass has passed that on.
LEMMA DecisionsStep == IInv /\ [Next]_vars => DecisionsKept'
<1>. SUFFICES ASSUME IInv, [Next]_vars PROVE DecisionsKept'
  OBVIOUS
<1>. DEFINE Asked(e) == ConfigFromEnvironment(e)
<1>0. UNCHANGED settings => Asked(settings)' = Asked(settings)
  BY DEF ConfigFromEnvironment
<1>. HIDE DEF Asked
<1>1. CASE Boot
  <2>1. phase' = "booted" /\ config' = Asked(settings) /\ settings' = settings
    BY <1>1 DEF Boot, Asked
  <2>. QED
    BY <1>0, <2>1 DEF DecisionsKept, Asked
<1>2. CASE DetectTopology
  <2>1. /\ phase = "booted" /\ phase' = "standby" /\ UNCHANGED <<settings, hosted, config>>
        /\ external' = (~misread' /\ hosted) /\ misread' \in BOOLEAN
    <3>1. misread' = FALSE \/ misread' = TRUE
      BY <1>2, Zenon DEF DetectTopology
    <3>. QED
      BY <1>2, <3>1, Zenon DEF DetectTopology, IsExternalControlPlane, given
  <2>2. external' = (hosted' /\ ~misread')
    BY <2>1, Zenon
  <2>3. config' = Asked(settings)'
    BY <1>0, <2>1 DEF IInv, DecisionsKept, Asked
  <2>. QED
    BY <2>1, <2>2, <2>3 DEF DecisionsKept, Asked
<1>3. CASE Lead \/ SyncAPIServer
  <2>1. /\ phase \in {"standby", "leading"} /\ key' = TRUE
        /\ UNCHANGED <<settings, hosted, config, external, misread>>
    BY <1>3 DEF Lead, SyncAPIServer, given, decided
  <2>. QED
    BY <1>0, <2>1 DEF IInv, DecisionsKept, Asked
<1>4. CASE Pass
  <2>1. /\ phase = "leading" /\ UNCHANGED <<settings, hosted, config, external, misread, phase>>
        /\ key
        /\ \/ key' = key
           \/ operand' = [tls |-> tls', worker |-> external, verbosity |-> config.Verbosity]
    BY <1>4 DEF Pass, given, decided
  <2>. QED
    BY <1>0, <2>1 DEF IInv, DecisionsKept, Asked
<1>5. CASE WatchProfile \/ ChangeAPIServer \/ UNCHANGED vars
  <2>1. UNCHANGED <<phase, settings, hosted, config, external, misread, tls, key, operand>>
    BY <1>5 DEF WatchProfile, ChangeAPIServer, vars, given, decided
  <2>. QED
    BY <1>0, <2>1 DEF IInv, DecisionsKept, Asked
<1>6. CASE Exit \/ Crash
  BY <1>6 DEF Exit, Crash, Stop, DecisionsKept
<1>. QED
  BY <1>1, <1>2, <1>3, <1>4, <1>5, <1>6 DEF Next, Operator

\* IInv is an invariant of the start-up, of every process in turn.
THEOREM Inductive == Spec => []IInv
<1>1. Init => IInv
  <2>1. Init => WatcherCurrent /\ KeysKept /\ DecisionsKept
    BY DEF Init, WatcherCurrent, KeysKept, DecisionsKept
  <2>. QED
    BY <2>1, TypeInit DEF IInv
<1>2. IInv /\ [Next]_vars => IInv'
  BY TypeStep, WatcherStep, KeysStep, DecisionsStep DEF IInv
<1>. QED
  BY <1>1, <1>2, PTL DEF Spec

\* The metrics endpoint and the webhook agree with the cluster at every rest,
\* for any number of profiles, changes and crashes.
THEOREM Agree == Spec => []EndpointsAgree
<1>1. IInv => EndpointsAgree
  <2>. SUFFICES ASSUME IInv, phase = "leading", ~cancelled, ~apiEvent, api.live, secure,
                       ~watchKey, ~key
                PROVE  metrics = Effective(api) /\ tls = Effective(api)
    BY DEF EndpointsAgree
  <2>1. /\ apiCache = api
        /\ watcher = [profile |-> api.profile, policy |-> api.policy]
    BY DEF IInv, KeysKept
  <2>2. watcher.profile = api.profile /\ watcher.policy = api.policy
    BY <2>1
  <2>3. api.profile \in Profiles
    BY <2>2 DEF IInv, TypeOK
  <2>4. metrics = Effective(api)
    BY <2>2 DEF IInv, WatcherCurrent, Effective
  <2>5. Effective(api) # Unresolvable
    BY <2>3 DEF Effective
  <2>. QED
    BY <2>1, <2>4, <2>5 DEF IInv, KeysKept
<1>. QED
  BY <1>1, Inductive, PTL

\* At every rest the operands have what the process that leads decided and
\* read, whatever earlier processes read, decided and were given to decide on.
THEOREM Current == Spec => []OperandsCurrent
<1>1. IInv => OperandsCurrent
  <2>. SUFFICES ASSUME IInv, phase = "leading", ~key
                PROVE  operand = [tls |-> tls, worker |-> hosted /\ ~misread,
                                  verbosity |-> ConfigFromEnvironment(settings).Verbosity]
    BY DEF OperandsCurrent
  <2>1. /\ config = ConfigFromEnvironment(settings)
        /\ external = (hosted /\ ~misread)
        /\ operand = [tls |-> tls, worker |-> external, verbosity |-> config.Verbosity]
    BY DEF IInv, DecisionsKept
  <2>. QED
    BY <2>1, Zenon
<1>. QED
  BY <1>1, Inductive, PTL
=============================================================================
