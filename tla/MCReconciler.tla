---------------------------- MODULE MCReconciler ----------------------------
(* Small instances of Reconciler for TLC.                                  *)
EXTENDS Reconciler, TLC

CONSTANTS bare, full, old, v1, v2

\* bare: overrides the API server completes with defaults; full: overrides
\* it stores as written.
BothOverrides == {bare, full}
OneOverride == {full}
FillDefaults == [v \in Overrides |-> full]

OneProfile == {old}
OneVersion == {v1}
TwoVersions == {v1, v2}

\* One object of each kind of handling, and watched objects alone.
WatchedAndPolicy == <<"vpa-admission-plugin-default", "vpa-default-deny">>
TwoWatched == <<"vpa-admission-plugin-default", "vpa-webhook">>
WatchedOnly == <<"vpa-admission-plugin-default">>
=============================================================================
