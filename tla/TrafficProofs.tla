---------------------------- MODULE TrafficProofs ---------------------------
(* Proofs about Traffic: what the policies admit, in whatever combination  *)
(* they are in force, and that the operands are not left cut off.          *)
EXTENDS Traffic, ReconcilerProofs

-----------------------------------------------------------------------------
(* The rendered policies.                                                  *)

\* The labels of the operands' pods.
LEMMA AppsListed ==
    /\ Apps = {"vpa-recommender", "vpa-updater", "vpa-admission-controller"}
    /\ WebhookService.selects = "vpa-admission-controller"
    /\ WebhookService.targetPort = 8000
<1>1. /\ App["vpa-recommender-default"] = "vpa-recommender"
      /\ App["vpa-updater-default"] = "vpa-updater"
      /\ App["vpa-admission-plugin-default"] = "vpa-admission-controller"
  BY DEF App, Deployments
<1>2. Apps = {App["vpa-recommender-default"], App["vpa-updater-default"],
              App["vpa-admission-plugin-default"]}
  BY DEF Apps, Deployments
<1>. QED
  BY <1>1, <1>2 DEF WebhookService, AdmissionWebhookPort

\* What each policy isolates and admits.
LEMMA PolicyTable ==
    /\ NetworkPolicies["vpa-default-deny"] =
          NetworkPolicy(Apps, {"Egress", "Ingress"}, "any", {})
    /\ NetworkPolicies["vpa-allow-egress-to-dns"] =
          NetworkPolicy(Apps, {"Egress"}, "dns",
                        {makePort("TCP", 5353), makePort("UDP", 5353)})
    /\ NetworkPolicies["vpa-allow-egress-to-api-server"] =
          NetworkPolicy(Apps, {"Egress"}, "any", {makePort("TCP", 6443)})
    /\ NetworkPolicies["vpa-allow-ingress-to-admission-webhook"] =
          NetworkPolicy({"vpa-admission-controller"}, {"Ingress"}, "any",
                        {makePort("TCP", 8000)})
    /\ NetworkPolicies["vpa-allow-ingress-to-metrics"] =
          NetworkPolicy(Apps, {"Ingress"}, "any", {makePort("TCP", m) : m \in 8942..8944})
BY DEF NetworkPolicies, Policies, AdmissionWebhookPort

\* A flow that a policy lets through is one of those the policy is for.
LEMMA AdmittedIsLegitimate ==
    ASSUME NEW f \in Flows, NEW p \in Policies,
           f.app \in NetworkPolicies[p].selects, f.dir \in NetworkPolicies[p].types,
           NetworkPolicies[p].peer \in {"any", f.peer},
           NEW r \in NetworkPolicies[p].ports,
           r.proto = f.proto, r.port \in {0, f.port}
    PROVE  Legitimate(f)
<1>1. CASE p = "vpa-default-deny"
  BY <1>1, PolicyTable DEF NetworkPolicy
<1>2. CASE p = "vpa-allow-egress-to-dns"
  <2>1. /\ f.dir = "Egress" /\ f.peer = "dns" /\ f.proto \in {"TCP", "UDP"}
        /\ f.port = 5353 /\ f.app \in Apps
    BY <1>2, PolicyTable DEF NetworkPolicy, makePort
  <2>2. f = Flow(f.app, "Egress", "dns", f.proto, 5353)
    BY <2>1 DEF Flow, Flows
  <2>. QED
    BY <2>1, <2>2 DEF Legitimate, DNSFlows
<1>3. CASE p = "vpa-allow-egress-to-api-server"
  BY <1>3, PolicyTable DEF NetworkPolicy, makePort, Legitimate
<1>4. CASE p = "vpa-allow-ingress-to-admission-webhook"
  BY <1>4, PolicyTable DEF NetworkPolicy, makePort, Legitimate
<1>5. CASE p = "vpa-allow-ingress-to-metrics"
  BY <1>5, PolicyTable DEF NetworkPolicy, makePort, Legitimate
<1>. QED
  BY <1>1, <1>2, <1>3, <1>4, <1>5 DEF Policies

\* vpa-default-deny isolates every operand in both directions, so with it any
\* set of the policies admits legitimate traffic only.
LEMMA DenyIsTight ==
    ASSUME NEW P \in SUBSET Policies, "vpa-default-deny" \in P
    PROVE  P \in Tight
<1>. SUFFICES ASSUME NEW f \in Flows, Open(f, P) PROVE Legitimate(f)
  BY DEF Tight
<1>. DEFINE isolating == {p \in P : /\ f.app \in NetworkPolicies[p].selects
                                    /\ f.dir \in NetworkPolicies[p].types}
<1>1. "vpa-default-deny" \in isolating
  BY PolicyTable DEF NetworkPolicy, Flows
<1>2. PICK p \in isolating :
         /\ NetworkPolicies[p].peer \in {"any", f.peer}
         /\ \E r \in NetworkPolicies[p].ports :
               r.proto = f.proto /\ r.port \in {0, f.port}
  BY <1>1 DEF Open
<1>. QED
  BY <1>2, AdmittedIsLegitimate

\* All policies together let through what the operands and the webhook need.
LEMMA AllConnected == Policies \in Connected /\ Policies \in Reachable
<1>1. ASSUME NEW f, NEW p \in Policies,
             f.app \in NetworkPolicies[p].selects, f.dir \in NetworkPolicies[p].types,
             NetworkPolicies[p].peer \in {"any", f.peer},
             NEW r \in NetworkPolicies[p].ports, r.proto = f.proto, r.port = f.port
      PROVE  Open(f, Policies)
  BY <1>1 DEF Open
<1>2. ASSUME NEW f \in DNSFlows PROVE Open(f, Policies)
  <2>1. PICK a \in Apps, proto \in {"TCP", "UDP"} :
           f = Flow(a, "Egress", "dns", proto, 5353)
    BY DEF DNSFlows
  <2>2. /\ f.app \in Apps /\ f.dir = "Egress" /\ f.peer = "dns"
        /\ f.proto = proto /\ f.port = 5353
    BY <2>1 DEF Flow
  <2>. DEFINE p == "vpa-allow-egress-to-dns"
              r == makePort(proto, 5353)
  <2>3. /\ p \in Policies /\ NetworkPolicies[p].selects = Apps
        /\ NetworkPolicies[p].types = {"Egress"} /\ NetworkPolicies[p].peer = "dns"
        /\ r \in NetworkPolicies[p].ports
    BY PolicyTable DEF NetworkPolicy, Policies
  <2>4. r.proto = proto /\ r.port = 5353
    BY DEF makePort
  <2>. QED
    BY <1>1, <2>2, <2>3, <2>4
<1>3. ASSUME NEW f \in APIFlows PROVE Open(f, Policies)
  <2>1. /\ f.app \in Apps /\ f.dir = "Egress" /\ f.peer = "api"
        /\ f.proto = "TCP" /\ f.port = 6443
    BY DEF APIFlows, Flow
  <2>. DEFINE p == "vpa-allow-egress-to-api-server"
              r == makePort("TCP", 6443)
  <2>2. /\ p \in Policies /\ NetworkPolicies[p].selects = Apps
        /\ NetworkPolicies[p].types = {"Egress"} /\ NetworkPolicies[p].peer = "any"
        /\ r \in NetworkPolicies[p].ports
    BY PolicyTable DEF NetworkPolicy, Policies
  <2>3. r.proto = "TCP" /\ r.port = 6443
    BY DEF makePort
  <2>. QED
    BY <1>1, <2>1, <2>2, <2>3
<1>4. Open(WebhookFlow, Policies)
  <2>1. /\ WebhookFlow.app = "vpa-admission-controller" /\ WebhookFlow.dir = "Ingress"
        /\ WebhookFlow.proto = "TCP" /\ WebhookFlow.port = 8000
    BY AppsListed DEF WebhookFlow, Flow
  <2>. DEFINE p == "vpa-allow-ingress-to-admission-webhook"
              r == makePort("TCP", 8000)
  <2>2. /\ p \in Policies /\ NetworkPolicies[p].selects = {"vpa-admission-controller"}
        /\ NetworkPolicies[p].types = {"Ingress"} /\ NetworkPolicies[p].peer = "any"
        /\ r \in NetworkPolicies[p].ports
    BY PolicyTable DEF NetworkPolicy, Policies
  <2>3. r.proto = "TCP" /\ r.port = 8000
    BY DEF makePort
  <2>. QED
    BY <1>1, <2>1, <2>2, <2>3
<1>. QED
  BY <1>2, <1>3, <1>4 DEF Connected, Reachable

-----------------------------------------------------------------------------
(* No combination of the policies opens too much.                          *)

\* Whatever a pass has created, left undone or somebody has deleted: while
\* vpa-default-deny is in force, and no policy is rewritten by others, only
\* legitimate traffic passes.
THEOREM TightWhenDenied == TSpec => []OnlyLegitimateOpen
<1>1. InForce(store) \in SUBSET Policies
  BY DEF InForce
<1>2. OnlyLegitimateOpen
  BY <1>1, DenyIsTight DEF OnlyLegitimateOpen
<1>. QED
  BY <1>2, PTL

-----------------------------------------------------------------------------
(* The inductive invariant: policies that are missing are known to be.     *)

\* Every step of Traffic is one of the reconciler and its environment.
LEMMA TrafficStep == [TNext]_tvars => [Next]_vars
BY DEF TNext, tvars, Next

\* Whatever the resource and the configuration, a policy has one content.
LEMMA RenderedPolicy ==
    ASSUME NEW p \in Policies, NEW s, NEW c
    PROVE  Stored(p, s, c) = [policy |-> p] /\ Expected(p, s, c) = [policy |-> p]
BY DEF Stored, Expected, Policies, Deployments

\* Users, administrators, crashes and the garbage collector touch neither the
\* cached copies nor, short of a crash, the queue and the worker.
LEMMA EnvironmentFrame ==
    ASSUME TypeOK, Environment
    PROVE  /\ UNCHANGED <<cache, vpaCache>>
           /\ ~up' \/ UNCHANGED <<up, queued, pc, idx>>
<1>. USE DEF clusterVars, cacheVars, workerVars
<1>1. CASE \E o \in Objects :
              TouchObject(o) \/ EditObject(o) \/ DeleteObject(o) \/ Collect(o)
  BY <1>1, OthersWrite DEF Disturb
<1>. QED
  BY <1>1 DEF Environment, CreateVPA, EditVPA, DeleteVPA, SetVPA,
              ChangeAPIServer, Crash

\* A step that leaves the policies and their cached copies alone.
LEMMA KeptUnchanged ==
    ASSUME PoliciesKept, touched' = touched,
           \A p \in Policies \intersect Objects :
              /\ store'[p] = store[p]
              /\ cache'[p] = cache[p] \/ cache'[p] = store[p]
    PROVE  /\ PoliciesKept'
           /\ \A p \in Policies \intersect Objects :
                 p \in InForce(store) <=> p \in InForce(store')
BY DEF PoliciesKept, InForce

\* The start, the informers and a failed call: all but an event about an
\* object leave a key in the queue.
LEMMA SchedulingKeeps ==
    ASSUME TInv, Start \/ Informers \/ CallFails, UNCHANGED touched
    PROVE  PoliciesKept' /\ PoliciesCovered'
<1>. USE DEF clusterVars, cacheVars, workerVars
<1>0. TypeOK /\ PoliciesKept /\ PoliciesCovered
  BY DEF TInv, IInv
<1>1. CASE Start
  BY <1>0, <1>1, KeptUnchanged DEF Start, PoliciesCovered
<1>2. CASE SyncVPA \/ SyncAPIServer \/ Resync
  BY <1>0, <1>2, KeptUnchanged DEF SyncVPA, SyncAPIServer, Resync, PoliciesCovered
<1>3. ASSUME NEW o \in Objects, SyncObject(o) PROVE PoliciesKept' /\ PoliciesCovered'
  <2>1. \A p \in Objects : cache'[p] = cache[p] \/ cache'[p] = store[p]
    BY <1>0, <1>3 DEF SyncObject, TypeOK, CacheTyped
  <2>2. store' = store /\ (queued => queued')
    BY <1>3 DEF SyncObject
  <2>3. /\ PoliciesKept'
        /\ \A p \in Policies \intersect Objects :
              p \in InForce(store) <=> p \in InForce(store')
    BY <1>0, <2>1, <2>2, KeptUnchanged
  <2>. QED
    BY <1>0, <1>3, <2>2, <2>3 DEF SyncObject, PoliciesCovered, Remaining
<1>4. CASE CallFails
  BY <1>0, <1>4, KeptUnchanged DEF CallFails, Return, PoliciesCovered
<1>. QED
  BY <1>1, <1>2, <1>3, <1>4 DEF Informers

\* Others' steps: one that changes a policy is remembered.
LEMMA InterferenceKeeps ==
    ASSUME TInv, Environment,
           touched' = (touched \/ \E o \in Policies \intersect Objects : store'[o] # store[o])
    PROVE  PoliciesKept' /\ PoliciesCovered'
<1>0. TypeOK /\ PoliciesKept /\ PoliciesCovered
  BY DEF TInv, IInv
<1>1. CASE touched'
  BY <1>1 DEF PoliciesKept, PoliciesCovered
<1>2. CASE ~touched'
  <2>1. /\ ~touched /\ touched' = touched
        /\ \A p \in Policies \intersect Objects : store'[p] = store[p]
    BY <1>2 DEF TInv
  <2>2. UNCHANGED <<cache, vpaCache>> /\ (~up' \/ UNCHANGED <<up, queued, pc, idx>>)
    BY <1>0, EnvironmentFrame
  <2>3. /\ PoliciesKept'
        /\ \A p \in Policies \intersect Objects :
              p \in InForce(store) <=> p \in InForce(store')
    BY <1>0, <2>1, <2>2, KeptUnchanged
  <2>. QED
    BY <1>0, <2>1, <2>2, <2>3 DEF PoliciesCovered, Remaining
<1>. QED
  BY <1>1, <1>2

\* The steps of a pass that only read: a policy is passed over only if the
\* cache has it, and then it is in force.
LEMMA PassReadsKeep ==
    ASSUME TInv, Reconcile \/ GetObject \/ UpdateObject, UNCHANGED touched
    PROVE  PoliciesKept' /\ PoliciesCovered'
<1>. USE DEF clusterVars, cacheVars
<1>. DEFINE o == Order[idx]
<1>0. TypeOK /\ WorkerTyped /\ PassConsistent /\ PoliciesKept /\ PoliciesCovered
  BY DEF TInv, IInv, TypeOK
<1>1. UNCHANGED <<store, cache, vpaCache, up>>
  BY DEF Reconcile, GetObject, UpdateObject
<1>2. /\ PoliciesKept'
      /\ \A p \in Policies \intersect Objects :
            p \in InForce(store) <=> p \in InForce(store')
  BY <1>0, <1>1, KeptUnchanged
<1>3. CASE queued'
  BY <1>2, <1>3 DEF PoliciesCovered
<1>4. CASE Reconcile /\ ~queued'
  <2>1. CASE pc' = "get"
    <3>1. idx' = 1
      BY <1>0, <1>4 DEF Reconcile, PassConsistent
    <3>2. \A p \in Objects : \E i \in 1..Len(Order) : Order[i] = p
      BY DEF Objects
    <3>. QED
      BY <1>2, <2>1, <3>1, <3>2 DEF PoliciesCovered, Remaining
  <2>2. CASE ~vpaCache.live
    BY <1>1, <1>2, <2>2 DEF PoliciesCovered
  <2>. QED
    BY <1>4, <2>1, <2>2 DEF Reconcile
<1>5. CASE /\ GetObject \/ UpdateObject
           /\ ~queued' /\ Advance /\ cache[o].live
  <2>. SUFFICES ASSUME up, vpaCache.live, ~touched,
                       NEW p \in Policies \intersect Objects
                PROVE  Remaining(p)' \/ p \in InForce(store')
    BY <1>1, <1>2 DEF PoliciesCovered
  <2>1. queued' = queued
    BY <1>0, <1>5 DEF Advance, Return, WorkerTyped
  <2>2. Remaining(p) \/ p \in InForce(store)
    BY <1>0, <1>5, <2>1 DEF PoliciesCovered
  <2>3. CASE p = o
    BY <1>0, <1>2, <1>5, <2>3 DEF PoliciesKept
  <2>4. CASE p # o
    BY <1>0, <1>2, <1>5, <2>2, <2>4, AdvanceRemaining
  <2>. QED
    BY <2>3, <2>4
<1>6. CASE pc # "idle" /\ pc' # "idle" /\ UNCHANGED <<idx, queued>>
  BY <1>0, <1>1, <1>2, <1>6 DEF PoliciesCovered, Remaining
<1>7. CASE GetObject
  BY <1>3, <1>5, <1>6, <1>7 DEF GetObject, Goto
<1>8. CASE UpdateObject
  <2>1. Return(TRUE) => queued'
    BY DEF Return
  <2>. QED
    BY <1>3, <1>5, <1>6, <1>8, <2>1 DEF UpdateObject
<1>. QED
  BY <1>3, <1>4, <1>7, <1>8

\* The writes of a pass leave the policy they are about in force, or a key.
LEMMA PassWritesKeep ==
    ASSUME TInv, CreateObject \/ PutObject \/ PutPolicy, UNCHANGED touched
    PROVE  PoliciesKept' /\ PoliciesCovered'
<1>. DEFINE o == Order[idx]
<1>0. /\ IInv /\ WorkerTyped /\ StoreTyped /\ PoliciesKept /\ PoliciesCovered
      /\ o \in Objects
  BY OrderFacts DEF TInv, IInv, TypeOK, WorkerTyped
<1>1. UNCHANGED <<cache, vpaCache, up>>
  BY DEF CreateObject, PutObject, PutPolicy
<1>2. CASE Return(TRUE) /\ UNCHANGED <<store, pending, fails>>
  BY <1>0, <1>1, <1>2, KeptUnchanged DEF Return, PoliciesCovered
<1>3. ASSUME NEW slot \in Slots, Write(o, slot), Reply, slot.live,
             slot.content = Stored(o, rvpa.spec, cfg)
      PROVE  PoliciesKept' /\ PoliciesCovered'
  <2>1. store'[o] = slot /\ \A p \in Objects : p # o => store'[p] = store[p]
    BY <1>0, <1>3, WriteEffect
  <2>2. o \in Policies => o \in InForce(store')
    <3>1. o \in Policies => slot.content = [policy |-> o]
      BY <1>3, RenderedPolicy
    <3>. QED
      BY <1>0, <1>3, <2>1, <3>1 DEF InForce
  <2>3. \A p \in Policies \intersect Objects :
           p # o => (p \in InForce(store) <=> p \in InForce(store'))
    BY <2>1 DEF InForce
  <2>4. PoliciesKept'
    <3>. SUFFICES ASSUME ~touched, NEW p \in Policies \intersect Objects
                  PROVE  /\ store'[p].live => p \in InForce(store')
                         /\ cache'[p].live => store'[p].live
      BY DEF PoliciesKept
    <3>1. CASE p = o
      BY <1>3, <2>1, <2>2, <3>1
    <3>2. CASE p # o
      BY <1>0, <1>1, <2>1, <2>3, <3>2 DEF PoliciesKept
    <3>. QED
      BY <3>1, <3>2
  <2>5. PoliciesCovered'
    <3>. SUFFICES ASSUME up, vpaCache.live, ~touched, ~queued',
                         NEW p \in Policies \intersect Objects
                  PROVE  Remaining(p)' \/ p \in InForce(store')
      BY <1>1 DEF PoliciesCovered
    <3>1. Advance /\ ~queued
      BY <1>0, <1>3 DEF Reply, Advance, Return, WorkerTyped
    <3>2. CASE p = o
      BY <2>2, <3>2
    <3>3. CASE p # o
      <4>1. Remaining(p) \/ p \in InForce(store)
        BY <1>0, <3>1 DEF PoliciesCovered
      <4>. QED
        BY <1>0, <2>3, <3>1, <3>3, <4>1, AdvanceRemaining
    <3>. QED
      BY <3>2, <3>3
  <2>. QED
    BY <2>4, <2>5
<1>. QED
  BY <1>0, <1>2, <1>3, OwnWrite

\* The invariant holds initially ...
LEMMA TrafficInit == TInit => TInv
<1>. SUFFICES ASSUME TInit PROVE TInv
  OBVIOUS
<1>1. IInv
  BY InvInit DEF TInit
<1>2. \A p \in Objects : ~store[p].live /\ ~cache[p].live
  BY DEF TInit, Init, Absent
<1>3. PoliciesKept /\ PoliciesCovered
  BY <1>2 DEF TInit, Init, PoliciesKept, PoliciesCovered
<1>. QED
  BY <1>1, <1>3 DEF TInit, TInv

\* ... and every step keeps it.
LEMMA TrafficInvStep == TInv /\ [TNext]_tvars => TInv'
<1>. SUFFICES ASSUME TInv, [TNext]_tvars PROVE TInv'
  OBVIOUS
<1>1. IInv'
  BY TrafficStep, InvStep DEF TInv
<1>2. touched' \in BOOLEAN
  BY DEF TInv, TNext, tvars
<1>3. PoliciesKept' /\ PoliciesCovered'
  <2>1. CASE UNCHANGED tvars
    BY <2>1 DEF tvars, vars, clusterVars, cacheVars, workerVars, TInv, PoliciesKept,
                PoliciesCovered, InForce, Remaining
  <2>2. CASE (Start \/ CallFails \/ Informers) /\ UNCHANGED touched
    BY <2>2, SchedulingKeeps
  <2>3. CASE Operator /\ UNCHANGED touched
    BY <2>3, PassReadsKeep, PassWritesKeep DEF Operator
  <2>. QED
    BY <2>1, <2>2, <2>3, InterferenceKeeps DEF TNext
<1>. QED
  BY <1>1, <1>2, <1>3 DEF TInv

\* A policy the reconciler should have created and has not is in the queue or
\* ahead in the pass, and the ones that exist are as it renders them, until
\* somebody else changes one.
THEOREM TrafficInductive == TSpec => []TInv
BY TrafficInit, TrafficInvStep, PTL DEF TSpec

\* Reconcile visits all five policies.
AllPolicies == Policies \subseteq Objects

\* vpa-default-deny comes first and the policies that let traffic through come
\* later, each by a call that may fail: still no pass leaves the operands cut
\* off from DNS and the API server, or the webhook from the API server,
\* without a key for the next one.
THEOREM NotLeftCutOff == AllPolicies => (TSpec => []CutOffIsKnown)
<1>1. ASSUME AllPolicies, TInv PROVE CutOffIsKnown
  <2>. SUFFICES ASSUME up, vpaCache.live, ~touched, ~queued, pc = "idle"
                PROVE  InForce(store) \in Connected \intersect Reachable
    BY DEF CutOffIsKnown
  <2>1. \A p \in Policies : p \in InForce(store)
    BY <1>1 DEF AllPolicies, TInv, PoliciesCovered, Remaining
  <2>2. InForce(store) = Policies
    BY <2>1 DEF InForce
  <2>. QED
    BY <2>2, AllConnected
<1>. SUFFICES ASSUME AllPolicies PROVE TSpec => []CutOffIsKnown
  OBVIOUS
<1>2. TInv => CutOffIsKnown
  BY <1>1
<1>. QED
  BY <1>2, TrafficInductive, PTL
=============================================================================
