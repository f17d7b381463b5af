----------------------------- MODULE MCTraffic ------------------------------
(* Small instances of Traffic for TLC.                                     *)
EXTENDS Traffic, MCReconciler

\* All policies, and those on the way out.
PolicyPass == <<"vpa-default-deny", "vpa-allow-egress-to-dns",
                "vpa-allow-egress-to-api-server",
                "vpa-allow-ingress-to-admission-webhook",
                "vpa-allow-ingress-to-metrics">>
EgressPass == <<"vpa-default-deny", "vpa-allow-egress-to-dns",
                "vpa-allow-egress-to-api-server">>
=============================================================================
