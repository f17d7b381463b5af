------------------------------ MODULE Traffic -------------------------------
(***************************************************************************)
(* What the network policies, the webhook service and the operands'        *)
(* deployments mean together: which traffic reaches and leaves the         *)
(* operands while the reconciler creates and repairs them one at a time,   *)
(* others change them and the garbage collector removes them.              *)
(*                                                                         *)
(* A policy selects operands, by their labels, and names the directions it *)
(* isolates them in, a peer and ports.  Kubernetes lets a connection       *)
(* through unless a policy isolates the operand in that direction, and     *)
(* otherwise if one of the policies that do names it.                      *)
(***************************************************************************)
EXTENDS Reconciler

\* The app label of each deployment's pods; the other label, the name of the
\* resource, is the same for all.
App == [o \in Deployments |->
           CASE o = "vpa-recommender-default"      -> "vpa-recommender"
             [] o = "vpa-updater-default"          -> "vpa-updater"
             [] o = "vpa-admission-plugin-default" -> "vpa-admission-controller"]

Apps == {App[o] : o \in Deployments}

\* Mutant: the test for a missing port is inverted, so the port is dropped.
makePortInverted(proto, port) == [proto |-> proto, port |-> IF port = 0 THEN port ELSE 0]

\* Port 0 stands for a port that is left out, which means every port.
makePort(proto, port) == [proto |-> proto, port |-> port]

AdmissionWebhookPort == 8000

\* Port 443 of the service's address is this port of these pods.
WebhookService == [selects |-> App["vpa-admission-plugin-default"],
                   targetPort |-> AdmissionWebhookPort]

NetworkPolicy(selects, types, peer, ports) ==
    [selects |-> selects, types |-> types, peer |-> peer, ports |-> ports]

NetworkPolicies ==
    [p \in Policies |->
        CASE p = "vpa-default-deny" ->
                NetworkPolicy(Apps, {"Egress", "Ingress"}, "any", {})
          [] p = "vpa-allow-egress-to-dns" ->
                NetworkPolicy(Apps, {"Egress"}, "dns",
                              {makePort("TCP", 5353), makePort("UDP", 5353)})
          [] p = "vpa-allow-egress-to-api-server" ->
                NetworkPolicy(Apps, {"Egress"}, "any", {makePort("TCP", 6443)})
          [] p = "vpa-allow-ingress-to-admission-webhook" ->
                NetworkPolicy({"vpa-admission-controller"}, {"Ingress"}, "any",
                              {makePort("TCP", AdmissionWebhookPort)})
          [] p = "vpa-allow-ingress-to-metrics" ->
                NetworkPolicy(Apps, {"Ingress"}, "any",
                              {makePort("TCP", m) : m \in 8942..8944})]

-----------------------------------------------------------------------------
(* Kubernetes.                                                             *)

\* Connections of an operand, among them some that nobody needs.
Flow(app, dir, peer, proto, port) ==
    [app |-> app, dir |-> dir, peer |-> peer, proto |-> proto, port |-> port]

Flows == [app : Apps, dir : {"Egress", "Ingress"}, peer : {"dns", "api", "other"},
          proto : {"TCP", "UDP"}, port : {443, 5353, 6443, 8000, 8942, 8943, 8944}]

\* The policies that are there as the reconciler renders them.
InForce(s) == {p \in Policies \intersect Objects :
                  s[p].live /\ s[p].content = [policy |-> p]}

\* The policies somebody else rewrote: what they let through is anybody's guess.
Edited(s) == {p \in Policies \intersect Objects : s[p].live} \ InForce(s)

Open(f, policies) ==
    LET isolating == {p \in policies : /\ f.app \in NetworkPolicies[p].selects
                                       /\ f.dir \in NetworkPolicies[p].types}
    IN  \/ isolating = {}
        \/ \E p \in isolating :
              /\ NetworkPolicies[p].peer \in {"any", f.peer}
              /\ \E r \in NetworkPolicies[p].ports :
                    r.proto = f.proto /\ r.port \in {0, f.port}

-----------------------------------------------------------------------------
(* What the operands need.                                                 *)

DNSFlows == {Flow(a, "Egress", "dns", proto, 5353) : a \in Apps, proto \in {"TCP", "UDP"}}

APIFlows == {Flow(a, "Egress", "api", "TCP", 6443) : a \in Apps}

\* The API server calls the webhook through the service.
WebhookFlow == Flow(WebhookService.selects, "Ingress", "api", "TCP",
                    WebhookService.targetPort)

\* What a connection may be for: the peers of the last three cannot be told
\* by label.
Legitimate(f) ==
    \/ f \in DNSFlows
    \/ f.dir = "Egress" /\ f.proto = "TCP" /\ f.port = 6443
    \/ f.dir = "Ingress" /\ f.proto = "TCP" /\ f.port \in 8942..8944
    \/ /\ f.dir = "Ingress" /\ f.app = "vpa-admission-controller"
       /\ f.proto = "TCP" /\ f.port = 8000

\* Sets of policies under which nothing but legitimate traffic passes, and
\* under which the operands, and the webhook, have what they need.
Tight == {P \in SUBSET Policies : \A f \in Flows : Open(f, P) => Legitimate(f)}

Connected == {P \in SUBSET Policies : \A f \in DNSFlows \union APIFlows : Open(f, P)}

Reachable == {P \in SUBSET Policies : Open(WebhookFlow, P)}

-----------------------------------------------------------------------------
VARIABLE touched   \* history: others than the reconciler changed a policy

tvars == <<vars, touched>>

TInit == Init /\ touched = FALSE

\* The reconciler and its environment, remembering who changed the policies.
TNext ==
    \/ (Start \/ Operator \/ CallFails \/ Informers) /\ UNCHANGED touched
    \/ /\ Environment
       /\ touched' = (touched \/ \E o \in Policies \intersect Objects : store'[o] # store[o])

TSpec == TInit /\ [][TNext]_tvars

TFairSpec == TSpec /\ Fairness

-----------------------------------------------------------------------------
(* Correctness.                                                            *)

\* NetworkPolicies: with vpa-default-deny in force no traffic passes but what
\* the operands are for, whichever of the other policies a pass has not yet
\* reached, has left behind or somebody has deleted, unless somebody has
\* rewritten one (which TrafficSettles says does not last).
OnlyLegitimateOpen ==
    "vpa-default-deny" \in InForce(store) /\ Edited(store) = {} =>
        InForce(store) \in Tight

\* Reconcile creates vpa-default-deny before the policies that let traffic
\* through.  The operands are cut off from DNS and the API server, or the
\* webhook from the API server, only while a pass is under way or a key is
\* left to run the next: a pass that stops in between never leaves them so,
\* unless somebody else changed a policy.
CutOffIsKnown ==
    up /\ vpaCache.live /\ ~touched =>
        \/ queued \/ pc # "idle"
        \/ InForce(store) \in Connected \intersect Reachable

\* With the periodic resync every interference with the policies is repaired:
\* in the end no policy is other than rendered, the operands reach what they
\* need and nothing else gets through.
TrafficSettles ==
    <>[](up /\ vpa.live => /\ InForce(store) \in Tight \intersect Connected
                           /\ Edited(store) = {})

-----------------------------------------------------------------------------
(* The inductive invariant behind CutOffIsKnown.                           *)

\* As long as nobody else changes a policy, the one that exists is the one the
\* reconciler renders, and the cache sees none that is not there.
PoliciesKept ==
    ~touched => \A p \in Policies \intersect Objects :
                    /\ store[p].live => p \in InForce(store)
                    /\ cache[p].live => store[p].live

\* A policy that is not in force is known to be missing: a key is queued or
\* the current pass has yet to visit it.
PoliciesCovered ==
    up /\ vpaCache.live /\ ~touched =>
        \A p \in Policies \intersect Objects :
            queued \/ Remaining(p) \/ p \in InForce(store)

TInv == IInv /\ touched \in BOOLEAN /\ PoliciesKept /\ PoliciesCovered
=============================================================================
