------------------------------ MODULE PodSpecs ------------------------------
(***************************************************************************)
(* The pod specs of the three operands, as AutoscalerDeployment and        *)
(* UpdateAutoscaler render them from the resource and the operator's       *)
(* configuration: the command-line arguments (recommender.go, updater.go,  *)
(* admission_plugin.go), the user's overrides, placement and TLS.          *)
(* Reconciler takes the result as opaque content.                          *)
(*                                                                         *)
(* An argument is a flag with its value.  joined tells "--flag=value" from *)
(* "--flag", "value": only the first form is what ArgExists looks for.     *)
(* The configuration's ExtraArgs are the arguments written in that string. *)
(***************************************************************************)
EXTENDS Naturals, Sequences

CONSTANTS
    Nil,          \* an optional field that is not set
    SpecInputs,   \* resource specs to render
    ConfigInputs, \* operator configurations to render with
    IANA          \* OpenSSL cipher name -> IANA name, where one is known

Operands == {"recommender", "updater", "admission-controller"}

IsSequence(q) == q \in Seq({q[i] : i \in 1..Len(q)})

\* What the types of the resource and of the configuration guarantee.
ASSUME InputAssumption ==
    /\ \A s \in SpecInputs : \A o \in Operands : IsSequence(s.overrides[o].args)
    /\ \A c \in ConfigInputs : c.tls = Nil \/ IsSequence(c.tls.ciphers)
    /\ \A c \in ConfigInputs : c.extraArgs = Nil \/ c.extraArgs # <<>>

Arg(f, v) == [flag |-> f, value |-> v, joined |-> TRUE]

\* An argument for a field of the resource, if the user set it.
IfSet(f, v) == IF v = Nil THEN <<>> ELSE <<Arg(f, v)>>

ArgExists(args, f) == \E i \in 1..Len(args) : args[i].flag = f /\ args[i].joined

-----------------------------------------------------------------------------
(* Arguments.                                                              *)

\* --logtostderr is passed without a value.
CommonArgs(c) == <<[Arg("--logtostderr", Nil) EXCEPT !.joined = FALSE],
                   Arg("--v", c.verbosity)>>

RecommenderArgs(s, c) ==
    CommonArgs(c) \o IfSet("--recommendation-margin-fraction", s.safetyMarginFraction)
                  \o IfSet("--pod-recommendation-min-cpu-millicores", s.podMinCPUMillicores)
                  \o IfSet("--pod-recommendation-min-memory-mb", s.podMinMemoryMb)

UpdaterArgs(s, c) == CommonArgs(c) \o IfSet("--min-replicas", s.minReplicas)

\* A profile that names no version.
NoVersion == ""

TLSVersionToArg(v) ==
    CASE v = "VersionTLS10" -> "tls1_0"
      [] v = "VersionTLS11" -> "tls1_1"
      [] v = "VersionTLS12" -> "tls1_2"
      [] v = "VersionTLS13" -> "tls1_3"
      [] OTHER -> v

\* Mutant: every cipher is looked up in the profile's order, up to the first
\* one that is not known.
TLSCiphersToArgsPrefix(ciphers) ==
    LET n == CHOOSE k \in 0..Len(ciphers) :
                /\ \A i \in 1..k : ciphers[i] \in DOMAIN IANA
                /\ k < Len(ciphers) => ciphers[k + 1] \notin DOMAIN IANA
    IN  IF n = 0 THEN ciphers ELSE [i \in 1..n |-> IANA[ciphers[i]]]

\* library-go: the IANA names of the first n ciphers, without those it does
\* not know.
OpenSSLToIANACipherSuites(ciphers) ==
    LET iana[n \in 0..Len(ciphers)] ==
            IF n = 0 THEN <<>>
            ELSE IF ciphers[n] \in DOMAIN IANA THEN Append(iana[n - 1], IANA[ciphers[n]])
            ELSE iana[n - 1]
    IN  iana[Len(ciphers)]

\* Ciphers without a known IANA name are dropped, unless none has one.
TLSCiphersToArgs(ciphers) ==
    LET iana == OpenSSLToIANACipherSuites(ciphers)
    IN  IF Len(iana) = 0 THEN ciphers ELSE iana

AdmissionPluginArgs(s, c) ==
    LET user == s.overrides["admission-controller"].args
        Default(f, v) == IF ArgExists(user, f) THEN <<>> ELSE <<Arg(f, v)>>
    IN  CommonArgs(c)
        \o <<Arg("--tls-cert-file", "/data/tls-certs/tls.crt"),
             Arg("--tls-private-key", "/data/tls-certs/tls.key"),
             Arg("--client-ca-file", "/data/tls-ca-certs/service-ca.crt"),
             Arg("--webhook-timeout-seconds", "10")>>
        \o Default("--kube-api-qps", "25.0")
        \o Default("--kube-api-burst", "50.0")
        \o (IF c.tls = Nil \/ c.tls.minTLSVersion = NoVersion THEN <<>>
            ELSE <<Arg("--min-tls-version", TLSVersionToArg(c.tls.minTLSVersion))>>)
        \o (IF c.tls = Nil \/ c.tls.ciphers = <<>> THEN <<>>
            ELSE <<Arg("--tls-ciphers", TLSCiphersToArgs(c.tls.ciphers))>>)

GetArgs(o, s, c) ==
    CASE o = "recommender" -> RecommenderArgs(s, c)
      [] o = "updater" -> UpdaterArgs(s, c)
      [] o = "admission-controller" -> AdmissionPluginArgs(s, c)

-----------------------------------------------------------------------------
(* Pod specs.                                                              *)

\* Operands run on control plane nodes, or anywhere if the control plane is
\* hosted elsewhere.
DefaultNodeSelector(c) == IF c.external THEN "linux" ELSE "linux control-plane"

DefaultTolerations(c) ==
    IF c.external THEN "addons" ELSE "addons master control-plane"

\* A value with the text of further arguments behind it.
Glued == "value --flag=value"

\* A string of arguments passed on as one: what follows the first argument
\* becomes part of its value.
Unsplit(q) == IF Len(q) = 1 THEN q[1] ELSE [q[1] EXCEPT !.value = Glued]

\* VPAPodSpec: what the operands have in common.
VPAPodSpec(o, s, c) ==
    [args |-> GetArgs(o, s, c)
              \o (IF c.extraArgs = Nil THEN <<>> ELSE <<Unsplit(c.extraArgs)>>),
     resources |-> o,
     nodeSelector |-> DefaultNodeSelector(c),
     tolerations |-> DefaultTolerations(c),
     ports |-> {}, secrets |-> {}, configMaps |-> {}]

\* Mutant: the operator's own arguments come last.
OverriddenFirst(pod, u) ==
    [pod EXCEPT !.args = u.args \o @,
                 !.resources = IF u.resources = Nil THEN @ ELSE u.resources,
                 !.nodeSelector = IF u.nodeSelector = Nil THEN @ ELSE u.nodeSelector,
                 !.tolerations = IF u.tolerations = Nil THEN @ ELSE u.tolerations]

\* The user's overrides: arguments are appended, the rest is replaced.
Overridden(pod, u) ==
    [pod EXCEPT !.args = @ \o u.args,
                 !.resources = IF u.resources = Nil THEN @ ELSE u.resources,
                 !.nodeSelector = IF u.nodeSelector = Nil THEN @ ELSE u.nodeSelector,
                 !.tolerations = IF u.tolerations = Nil THEN @ ELSE u.tolerations]

\* Only the admission controller serves, and mounts its certificates.
PodSpecMethod(o, s, c) ==
    LET pod == Overridden(VPAPodSpec(o, s, c), s.overrides[o]) IN
    IF o # "admission-controller" THEN pod
    ELSE [pod EXCEPT !.ports = @ \union {8000},
                      !.secrets = @ \union {"vpa-tls-certs"},
                      !.configMaps = @ \union {"vpa-tls-ca-certs"}]

\* RecommenderEnabled, UpdaterEnabled, AdmissionPluginEnabled.
Enabled(o, s) ==
    o = "recommender" \/ s.recommendationOnly = Nil \/ ~s.recommendationOnly

-----------------------------------------------------------------------------
VARIABLES
    spec,      \* the resource's spec
    cfg,       \* r.Config
    rendered   \* per operand its pod spec and replicas, or Nil

vars == <<spec, cfg, rendered>>

Init == spec \in SpecInputs /\ cfg \in ConfigInputs /\ rendered = Nil

\* A pass renders all operands from one copy of the resource.
Render ==
    /\ rendered = Nil
    /\ rendered' = [o \in Operands |->
                       [pod |-> PodSpecMethod(o, spec, cfg),
                        replicas |-> IF Enabled(o, spec) THEN 1 ELSE 0]]
    /\ UNCHANGED <<spec, cfg>>

Spec == Init /\ [][Render]_vars

-----------------------------------------------------------------------------
(* Correctness, against what the user and the cluster asked for.           *)

Occurrences(args, f) == {i \in 1..Len(args) : args[i].flag = f}

Given(args, f) == Occurrences(args, f) # {}

\* The operands' flag parser lets the last occurrence of a flag win.
Effective(args, f) ==
    IF ~Given(args, f) THEN Nil
    ELSE args[CHOOSE i \in Occurrences(args, f) :
                 \A j \in Occurrences(args, f) : j <= i].value

\* The user's arguments of an operand, and the operator's extra one.
UserArgs(o) == spec.overrides[o].args

ExtraArgs == IF cfg.extraArgs = Nil THEN <<>> ELSE <<Unsplit(cfg.extraArgs)>>

\* The field of the resource or of the cluster configuration behind a flag.
SetBy(o, f) ==
    CASE o = "recommender" /\ f = "--recommendation-margin-fraction" -> spec.safetyMarginFraction
      [] o = "recommender" /\ f = "--pod-recommendation-min-cpu-millicores" -> spec.podMinCPUMillicores
      [] o = "recommender" /\ f = "--pod-recommendation-min-memory-mb" -> spec.podMinMemoryMb
      [] o = "updater" /\ f = "--min-replicas" -> spec.minReplicas
      [] o = "admission-controller" /\ f = "--kube-api-qps" -> "25.0"
      [] o = "admission-controller" /\ f = "--kube-api-burst" -> "50.0"
      [] o = "admission-controller" /\ f = "--min-tls-version"
            /\ cfg.tls # Nil /\ cfg.tls.minTLSVersion # NoVersion ->
            TLSVersionToArg(cfg.tls.minTLSVersion)
      [] f = "--v" -> cfg.verbosity
      [] OTHER -> Nil

\* Flags with a field, a default or a profile behind them.
ManagedFlags == {"--recommendation-margin-fraction", "--min-replicas",
                 "--pod-recommendation-min-cpu-millicores",
                 "--pod-recommendation-min-memory-mb", "--v",
                 "--kube-api-qps", "--kube-api-burst", "--min-tls-version"}

\* Flags are the user's to override, and the resource's fields reach exactly
\* the operand they are meant for: each operand sees the user's last value of
\* a flag, else the operator's extra argument, else the field's value (or the
\* built-in one, or none), whatever order GetArgs, VPAPodSpec and the
\* overrides put the arguments in.  Of several extra arguments in one string
\* only the first flag exists for the operand.
FlagsAsAsked ==
    rendered # Nil =>
        \A o \in Operands : \A f \in ManagedFlags :
            Effective(rendered[o].pod.args, f) =
                IF Given(UserArgs(o), f) THEN Effective(UserArgs(o), f)
                ELSE IF Given(ExtraArgs, f) THEN Effective(ExtraArgs, f)
                ELSE SetBy(o, f)

\* The IANA names of the ciphers of an honoured profile.
ProfileCiphers ==
    IF cfg.tls = Nil THEN {}
    ELSE {IANA[cfg.tls.ciphers[i]] :
            i \in {j \in 1..Len(cfg.tls.ciphers) : cfg.tls.ciphers[j] \in DOMAIN IANA}}

\* The ciphers of an honoured profile as it names them.
RawCiphers == {cfg.tls.ciphers[i] : i \in 1..Len(cfg.tls.ciphers)}

\* Unless the user or the operator's extra argument overrides it, the webhook
\* is given no cipher list when no profile is honoured or the profile names no
\* cipher.  Otherwise it is given exactly the ciphers of the profile that have
\* an IANA name (TLSCiphersToArgs): one that has none neither gets through nor
\* costs the webhook another, except that a profile without a single known
\* cipher is passed on as it stands and not as an empty list.
CiphersOfProfile ==
    rendered # Nil =>
        LET o == "admission-controller"
            f == "--tls-ciphers"
            used == Effective(rendered[o].pod.args, f)
        IN  IF Given(UserArgs(o), f) THEN used = Effective(UserArgs(o), f)
            ELSE IF Given(ExtraArgs, f) THEN used = Effective(ExtraArgs, f)
            ELSE IF cfg.tls = Nil \/ cfg.tls.ciphers = <<>> THEN used = Nil
            ELSE {used[i] : i \in 1..Len(used)} =
                    IF ProfileCiphers # {} THEN ProfileCiphers ELSE RawCiphers
=============================================================================
