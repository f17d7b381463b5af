----------------------------- MODULE MCPodSpecs -----------------------------
(* Bounded inputs for PodSpecs.                                            *)
EXTENDS PodSpecs, TLC

Split(f, v) == [Arg(f, v) EXCEPT !.joined = FALSE]

NoOverride == [args |-> <<>>, resources |-> Nil, nodeSelector |-> Nil,
               tolerations |-> Nil]

WithArgs(a) == [NoOverride EXCEPT !.args = a]

\* Joined, split and repeated user arguments, and ones that collide with
\* arguments of the operator.
AdmissionOverrides ==
    {NoOverride,
     WithArgs(<<Arg("--kube-api-qps", "5")>>),
     WithArgs(<<Split("--kube-api-qps", "5"), Arg("--kube-api-burst", "6")>>),
     WithArgs(<<Arg("--kube-api-qps", "5"), Arg("--kube-api-qps", "7")>>),
     WithArgs(<<Arg("--min-tls-version", "tls1_3"), Arg("--tls-ciphers", <<"X">>)>>),
     [WithArgs(<<Arg("--v", "9")>>) EXCEPT !.resources = "big"]}

OtherOverrides ==
    {NoOverride,
     WithArgs(<<Arg("--v", "8"), Arg("--min-replicas", "3"),
                Arg("--recommendation-margin-fraction", "0.5")>>)}

MCSpecInputs ==
    [safetyMarginFraction : {Nil, "0.15"}, podMinCPUMillicores : {Nil, "25"},
     podMinMemoryMb : {Nil, "250"}, minReplicas : {Nil, "2"},
     recommendationOnly : {Nil, TRUE, FALSE},
     overrides : {[o \in Operands |->
                     IF o = "admission-controller" THEN a
                     ELSE IF o = "updater" THEN u ELSE r] :
                     a \in AdmissionOverrides, u \in OtherOverrides, r \in OtherOverrides}]

MCConfigInputs ==
    [verbosity : {"1"}, external : BOOLEAN,
     extraArgs : {Nil, <<Arg("--v", "4")>>, <<Arg("--tls-ciphers", <<"Y">>)>>,
                  <<Arg("--min-replicas", "4"), Arg("--kube-api-qps", "9")>>},
     tls : {Nil,
            [minTLSVersion |-> "VersionTLS12", ciphers |-> <<"ECDHE-A", "ODD", "ECDHE-B">>],
            [minTLSVersion |-> "VersionTLS13", ciphers |-> <<"ODD", "STRANGE">>],
            [minTLSVersion |-> "", ciphers |-> <<>>]}]

MCIANA == "ECDHE-A" :> "TLS_ECDHE_A" @@ "ECDHE-B" :> "TLS_ECDHE_B"
=============================================================================
