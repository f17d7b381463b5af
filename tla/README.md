# A verification model of the Vertical Pod Autoscaler Operator

TLA+ modules, TLC configurations and TLAPS proofs for the operator in this
repository. `C` below is
`internal/controller/verticalpodautoscaler/verticalpodautoscaler_controller.go`.

## The system

The operator keeps the operands of the vertical pod autoscaler in step with one
`VerticalPodAutoscalerController` resource ("the resource"): three deployments
(recommender, updater, admission plugin), the webhook service, the CA config map
and five network policies. It is one process with one reconcile worker.

| part | state | operations | talks to |
|---|---|---|---|
| Reconciler (`C` 204-422, 536-661) | `r.Config`, local copies during a pass | `Reconcile`, `syncTLSProfile`, `Create*`, `Update*` | reads the caches, writes the API server |
| Watches, caches, queue (`C` 424-466) | cached copies, one key queued or not | informer events, `NamePredicate`, `apiServerToVPA`, owner lookup | fed by the API server's watches, feeds the worker |
| Default resource (`C` 427-438, 468-517) | an annotation on the namespace | `ensureVPAController`, once per process | API server |
| Pod specs and arguments (`C` 690-1044, `recommender.go`, `updater.go`, `admission_plugin.go`, `util/`) | none | pure rendering | called by create and update |
| Service, config map, network policies (`C` 1046-1288) | none | pure rendering | called by `Reconcile` |
| Start-up (`cmd/main.go`) | initial TLS profile, release version, topology | bootstrap reads, exit on failure, profile watcher that restarts the process | API server |
| Status reporter (`internal/operator/status.go`, `internal/lib/resourcemerge`) | the ClusterOperator status | poll, check the recommender, apply status | API server; not started by `main` at this commit |
| Configuration, topology (`internal/operator/config.go`, `infrastructure.go`) | none | read once at start | environment, Infrastructure object |

What is hard about it: every read may be stale and every write may be refused or
lose its reply; anything can change between a read and the write that relies on
it; a failing object ends the pass for all later ones; the process can die
between any two writes and its queue with it; the network policies are written
but not watched; and the default resource is created and marked in two steps by
processes that may overlap. `PROJECT.json` lists these hazards with their lines.

What makes each part correct:

* Reconciler, caches, queue: no change is ever lost (a quiet operator means
  objects as asked for), no concurrent change is undone, owner references stay,
  passes converge and do not trigger one another for ever, objects of a deleted
  resource disappear.
* TLS: the profile in use follows the cluster's, across failures to resolve it.
* Default resource: created once, marked only after a resource existed, final.
* Rendering: each operand obeys the user's flags first, then the operator's.
* Network policies: never more open than the operands need, and the operands
  not left cut off.
* Start-up: the metrics endpoint, whose TLS settings are fixed per process, and
  the webhook, whose settings are not, come to rest on the cluster's settings.
* Status reporter: no release is announced before it runs; the report gets
  through in the end.

## Modules

| module | models | extends |
|---|---|---|
| `Reconciler` | the reconciler, caches, queue, API server, garbage collector, users | |
| `MCReconciler` | instances of it for TLC | `Reconciler` |
| `ReconcilerProofs` | theorems about it | `Reconciler` |
| `DesiredState` | what a reconciler promises, abstractly; `Reconciler` instantiates it with a refinement mapping | |
| `RefinementProofs` | the reconciler implements it | `ReconcilerProofs` |
| `Orphans`, `MCOrphans` | the reconciler and objects without its owner reference | `Reconciler`, `MCReconciler` |
| `OrphansProofs` | theorems about it | `Orphans`, `ReconcilerProofs` |
| `Traffic`, `MCTraffic` | what the policies, the service and the pods' labels mean together while the reconciler writes them | `Reconciler`, `MCReconciler` |
| `TrafficProofs` | theorems about it | `Traffic`, `ReconcilerProofs` |
| `StatusReporter` | the poll that reports to the ClusterOperator | |
| `StatusReporterProofs` | theorems about it | `StatusReporter` |
| `Startup` | `main.go`, configuration, topology, the TLS profile watcher | |
| `StartupProofs` | theorems about it | `Startup` |
| `DefaultController` | `ensureVPAController` in overlapping processes | |
| `DefaultControllerProofs` | theorems about it | `DefaultController` |
| `PodSpecs` | rendering of the operands' pod specs | |
| `MCPodSpecs` | bounded inputs for it | `PodSpecs` |
| `PodSpecsProofs` | theorems about it | `PodSpecs` |

Operators whose comment starts with "Mutant" are deliberately wrong variants of
the definition that follows. Nothing uses them; `PROJECT.json` pairs each with the
property it breaks, which shows that the property depends on the code it is about.

### Reconciler

`store` is the API server's content, `cache` the informers' copies, `pending` the
undelivered events, `queued` the one key, `pc`, `idx`, `rvpa`, `held` the worker's
position in `Reconcile` and its local copies.

| action | code |
|---|---|
| `Start` | `main.go` 124-232: bootstrap read, exit if the profile cannot be resolved, initial profile; the manager lists everything and the APIServer object enqueues the key |
| `Reconcile` | `C` 204-232: `syncTLSProfile`, read of the resource |
| `GetObject` | the first `r.Get` of each object; for a policy also the comparison (`C` 383) |
| `CreateObject` | `CreateAutoscaler`, `CreateWebhookService`, `CreateCAConfigMap`, policy create: controller reference, `r.Create` or AlreadyExists |
| `UpdateObject` | the second `r.Get` and the comparison in the three `Update*` methods |
| `PutObject` | their `r.Update`, refused once the copy is outdated |
| `PutPolicy` | `C` 386: `r.Update` of a fresh policy, unconditional and without owner |
| `CallFails` | every `return reconcile.Result{}, err`; the queue retries |
| `SyncObject`, `SyncVPA`, `SyncAPIServer`, `Resync` | `Owns`, `For`, `Watches`, periodic resync |
| `Collect`, `CreateVPA`, `EditVPA`, `DeleteVPA`, `ChangeAPIServer`, `TouchObject`, `EditObject`, `DeleteObject`, `Crash` | the rest of the cluster |

Abstractions, each of which keeps or adds behaviours:

* Resource versions are only compared for equality, so they are two flags: a
  cached copy is current unless an event is pending, a held copy is current unless
  `heldStale`.
* An informer that catches up takes the current version at once; that an event
  was about an owned object is remembered until then, so no enqueue is dropped.
* Content is what the reconciler renders, compares and replaces; `extra` stands
  for everything else in the object. Pod specs are opaque here (see `PodSpecs`),
  except that the admission plugin's carries the TLS profile. `Canonical` is the
  API server's defaulting: an override it changes makes the comparison fail for
  ever.
* A release version stands for everything a new process brings (image, verbosity,
  topology).
* `Order` gives the objects a pass visits; the code's order is deployments,
  service, config map, policies. The proofs hold for every order.
* One worker: `MaxConcurrentReconciles` is left at one, and leader election keeps
  a second process from reconciling.
* A read of a synced cache fails only with NotFound; `CallFails` allows other
  failures too, except for the APIServer object in `syncTLSProfile`, whose informer
  is synced before the worker starts.

### DefaultController

One `pc` per process through wait, namespace read, resource read, create and
patch; `GiveUp` is the cache-sync timeout and every error return, after which the
goroutine has `failed` and nothing repeats the attempt in that process. Processes crash
and restart, users create and delete the resource. `created`, `existed` and `late`
are history variables. The namespace read is not stale because it is the first
read of that kind in the process and lists it; the resource read may be.
`EventuallyMarked` therefore has exactly one way out: the attempt of every process ended in
an error. A crash, an overlap or a deletion is none, and neither is a failure that one
of the processes survives.

### PodSpecs

Rendering as operators that mirror the functions of the code, evaluated on one
`Render` step per input. An argument is a flag, a value and whether the two are
joined by `=`, which is all `ArgExists` recognises. The reference is `Effective`:
the operands' flag parser lets the last occurrence win. `Given` tells a flag that is
passed with no value from one that is not passed. The order of precedence the
properties state is user, extra argument (`C` 869-871), operator; a profile without
a minimum version (`admission_plugin.go` 58) or without ciphers (61) adds no argument,
and one without a single cipher that has an IANA name is passed on as it stands
(`tls.go` 29-31). `config.go` 58-59 calls `ExtraArgs` "a string of additional
arguments", but `C` 869-871 appends the string as one argument: of several
the first swallows the others into its value. `Unsplit` models what the code does, and
`FlagsAsAsked` that only the first flag then exists for the operand.
`OpenSSLToIANACipherSuites` is the loop of library-go, as a recursive function.

### Orphans

`OrphanVPA` adds to `Reconciler` a deletion of the resource that keeps its objects
(`kubectl delete --cascade=orphan`): the garbage collector takes the owner
references away, the `Update*` methods (`C` 551-661) never set them again, and `Owns`
looks a key up through them, so that events about these objects lead nowhere.
`orphaned` is a history variable: which objects that happened to.

The cost is larger than "other people's changes go unnoticed": the reconciler's own
write can be overlooked too. A pass that holds an outdated copy of the resource writes
an orphan; the pass for the newer copy still reads the cache from before that write,
finds the object equal and leaves it; the event of the write, which would normally
start one more pass, enqueues nothing. `OnlyOrphansOverlooked` states that
nothing else is lost, `OrphansSettle` that the resync repairs it.

### Traffic

`NetworkPolicies` translates the five rendered policies (`NetworkPolicies`, `C` 1131-1288) into which
pods a policy selects, which directions it isolates, which peer and ports it admits;
`makePort` (`C` 1112) and `WebhookService` (`C` 1048) are what they render. `Open` is how
Kubernetes combines policies (external). The module composes this with the whole of
`Reconciler`, so a pass stops, fails or is repeated between any two policies;
`InForce` is the policies stored as rendered, `Edited` those that somebody rewrote, of
which nothing is known: `OnlyLegitimateOpen` says what passes while there are none,
`TrafficSettles` that there are none in the end. `touched` remembers that somebody other
than the reconciler, the garbage collector included, changed a policy: these changes
start no pass.

### StatusReporter

`pc` is the position in `Start`, `ReportStatus`, `CheckVPARecommender` and
`ApplyStatus` (`internal/operator/status.go`).

| action | code |
|---|---|
| `Start`, `Poll`, `Finish` | `Start` 258-274: `PollUntilContextCancel`, which returns on the first available report or on an error |
| `GetVPA`, `GetDeployment`, `CheckFails` | `CheckVPARecommender` 308-351 from the caches, with `ReleaseVersionMatches` and `DeploymentUpdated` (`util.go`) |
| `ReadClusterOperator`, `CreateClusterOperator`, `Compare` | `GetOrCreateClusterOperator`, `ApplyStatus` up to the write, `EnsureClusterOperatorStatus` (`resourcemerge.go`) |
| `UpdateStatus`, `ApplyFails`, `ReplyLost` | the write with the resource version that was read; a call that fails, or one that is applied and whose reply is lost, which ends `Start` |
| `RollOut`, `ObserveSpec`, `ReplacePods`, `Collect`, `PodFails` | the deployments: spec, status and what the pods run are three different things |
| `ChangeVPA`, `ChangeClusterOperator`, `Crash`, `Tick` | users, other writers, restarts and upgrades, the clock |

`shown` and `outdated` are history: which operands really ran this release since the
process started, and whether somebody changed the ClusterOperator since the last
report. Nobody calls `NewStatusReporter` at this commit; the model runs it as a
runnable of the manager, which its `Start` method is written for. An error from a
runnable ends the process. The comment on `Start` (`status.go` 261, "wait
for stopCh to close before returning") does not describe the code: the poll returns on success, and
nothing reports again until the next start, hence the `outdated` case in
`SettlesAvailable`.

### Startup

| action | code |
|---|---|
| `Boot` | `main.go` 124-200: bootstrap read of the APIServer config, exit if it does not resolve, metrics TLS, `ConfigFromEnvironment` (`config.go`) |
| `DetectTopology` | `IsExternalControlPlane` (`infrastructure.go`), a failing read included |
| `Lead`, `SyncAPIServer` | lease, initial lists, informer |
| `WatchProfile` | `SecurityProfileWatcher.Reconcile` (vendored) with `main.go`'s two callbacks (`main.go` 241-252) |
| `Pass` | a pass of the reconciler, `syncTLSProfile` first; an error where the cache does not serve the operands' namespace (`Served`) |
| `Exit`, `Crash`, `ChangeAPIServer` | end of the process and the cluster |

Three of the seven environment variables are modelled; the others are copied the
same way. `WATCH_NAMESPACE` may be unset, a namespace, or empty, which makes the cache
watch all of them; an empty operand namespace is not modelled, since the deployments
could then not be created at all. A restart may bring another environment. The
adherence policy can also be a value this release does not know, which
library-go honours. `misread` is history: this process could not read the
Infrastructure object, and takes the control plane for a standard one until it ends.
A pass is one step because its details are the subject of `Reconciler`.

`OperandsCurrent` is about that guess and its successors: at rest the operands have the
placement, verbosity and profile of the running process and of no earlier one. A hosted cluster
whose topology was misread loses the right placement with the first pass of that
process and has it back with the first pass of one that could read it. It also shows
what happens if watched and operand namespace differ: the process never comes to rest.

## Runs

| run | shows |
|---|---|
| `races` | `IInv`, `QuietMeansReconciled`, `TLSFollowsCluster`, `OwnerKept`, `NoLostUpdate` and the refinement `ImplementsDesired` under three interventions and a failure, and periodic resyncs, over a watched object and a policy (1.6 million states) |
| `convergence` | `Converges`, `DependentsCollected` under fairness, with two watched objects, an upgrade, and specs the API server completes |
| `orphans` | `OInv`, `OnlyOrphansOverlooked`, `OrphansSettle`: three interventions are delete-and-keep, create again, edit |
| `cut_off` | `TInv`, `OnlyLegitimateOpen`, `CutOffIsKnown` on a pass over all five policies that an intervention and a failure cut short |
| `egress` | `TrafficSettles` with the periodic resync: two interventions delete and recreate the resource or change policies; a pass is cut short by crashes here, failing calls are the subject of `cut_off` |
| `reports` | `IInv`, `NeverEarly`, `TransitionTimes`, `SettlesAvailable` with two releases, two interventions, two failing calls or lost replies, and a clock that can tell before from after |
| `startup` | `IInv`, `EndpointsAgree`, `OperandsCurrent`, `SettingsArrive` with two profiles, two changes or restarts, one unreadable topology, and every environment |
| `default_controller` | `IInv`, `MarkedAfterExisting`, `DeletionFinal`, `EventuallyMarked` with two processes |
| `pod_specs` | `FlagsAsAsked`, `CiphersOfProfile` on 36864 inputs, among them an empty profile, one of unknown ciphers only, and extra arguments that name a managed flag, one or two in a string |
| `policy_orphans` | expected violation of `OwnedObjectsCollected` |
| `single_default` | expected violation of `SingleDefault` |
| `other_operands` | expected violation of `AllOperandsUpdated` |

Bounds. `MaxEnv` counts interventions (users, administrators, crashes, upgrades) and
`MaxFails` failed calls or lost replies. The races in this code need at most three:
one to invalidate a read, one to hit the retry, one to change the target again.
Two objects suffice to cut a pass short; handling differs only between watched
objects and policies, and each run has what its question needs. `MaxTime` bounds the
reporter's clock. The proofs remove all bounds for the safety properties they cover.

Deadlock is not checked: with the budgets used up and nothing queued the operator
rightly has nothing to do.

Fairness. Weak fairness of `Start` (the kubelet restarts the pod), of `Operator` (the
work queue retries a key for as long as it is queued), of the informers, of the
garbage collector and, where modelled, of `Resync`. Nothing is assumed of users,
crashes and failures except that they are finitely many, which is what "once they
stop" means. `Converges` is about a running operator, or one that could start: while
the cluster names an unresolvable profile `main` exits again and again.
In `DefaultController`, restarts and the goroutine's steps are fair; the informer
need not be. In `StatusReporter`, restarts, the poll, each informer and the rollout
of each deployment are fair; in `Startup`, the process's own steps (the kubelet and the
lease), the informer and the two workers. In all of them environment steps are not.

## Proofs

All theorems hold for every value of the constants that satisfies the named
assumptions: `Order` is a non-empty sequence of the operator's object names, `Canonical` is
idempotent, `Unresolvable` is not a profile, the bounds are naturals, and rendered
content differs from the two markers for "none" and "foreign".

`ReconcilerProofs`: `TypeCorrect`, `Inductive`, `QuietReconciled`, `TLSFollows`,
`OwnersKept`, `UpdatesKept`. None of the properties is inductive alone: an empty queue says
nothing about how it became empty. `IInv` adds

* `CachesCurrent`: a copy without pending event equals the stored object, and an
  event about a watched object always leads to a key (this needs `OwnerKept`);
* `UidsIssued`: every UID in use belongs to a resource that was created;
* `PassConsistent`: a pass whose key has not been queued again works on the cached
  resource, and a held copy not marked stale is the stored object;
* `Covered`: every watched object is as asked for, or a key is queued, or an
  event is on its way, or the current pass has yet to visit it;
* `TLSCovered`: the same for the profile.

The argument follows a pass: it takes the key, so all objects become
`Remaining`; it may drop one only by finding it equal (`EqualIsStored`: comparing
equal means being what the API server would store) or by writing it; any return
in between puts the key back; any outside change has an event. The step lemmas
(`StartKeeps`, `InformersKeep`, `EnvironmentKeeps`, `ReconcileKeeps`, `ReadsKeep`,
`WritesKeep`, `FailureKeeps`) are one per group of actions.

`RefinementProofs`: `Implements`, that is `Spec => Desired!Spec`. The mapping forgets
caches, queue and passes: what is wanted is the stored form of each watched object
for the current resource and configuration, what is actual is the API server's
content, and the reconciler rests when nothing is queued, worked on or undelivered.
The initial states map because nothing exists and the queue is not settled; each
step changes either the wish or one object or neither, and one that
reaches rest does so on the wanted objects because of `IInv`.

`TrafficProofs`: `TightWhenDenied`, `TrafficInductive`, `NotLeftCutOff`.
`OnlyLegitimateOpen` needs no invariant of the reconciler: `AdmittedIsLegitimate` goes
through the five policies once, and `DenyIsTight` concludes for every set of
policies with `vpa-default-deny`, none of them rewritten, that a connection which passes is admitted by one of them.
`CutOffIsKnown` does need one, since no event tells of a missing policy and so `Covered`
says nothing about policies. `TInv` adds to `IInv`

* `PoliciesKept`: while nobody else changes policies, a stored one is as
  rendered and a cached one is stored, so a pass that finds a policy in its cache may skip it;
* `PoliciesCovered`: a policy not in force has a key queued or lies ahead in the pass.

`NotLeftCutOff` has the hypothesis `AllPolicies`, that `Order` contains the five policies, as
it does in the code and in the `cut_off` run; it is not an assumption of the module because the
`egress` run visits fewer. That all five together let the operands and the
webhook through is `AllConnected`.

`OrphansProofs`: `OrphansInductive`, `OrphansOnly`, for any number of deletions that keep
the objects. `IInv` does not hold here: after `OrphanVPA` a watched object has no owner
and events about it are silent. `OInv` confines this to `Overlooked` objects, those that
lost their owner and were not created anew:

* `OrphansSilent`: cached copies without an event are current, and a silent event
  about a watched object is about an overlooked one;
* `OwnersOrOrphans`: a watched object has an issued owner or is overlooked;
* `OthersCovered`: `Covered` for all objects that are not overlooked.

What does not depend on owners is taken from `ReconcilerProofs`: `TypeOK`,
`PassConsistent` and the lemmas about what a pass writes (`PassWrite`,
`ReturnOrAdvance`, `PassStep`) are stated there without `IInv` so that both proofs can use them.

`PodSpecsProofs`: `FlagsRight`, `CiphersRight`, for every resource, configuration and cipher
table; `InputAssumption` only says that argument and cipher lists are sequences and that
an extra-arguments string that is set is not empty. The
lemma everything rests on is `LaterWins`: of two argument lists one after the other the second
decides the flags it gives and the first all others. Each operand's list is then taken
apart (`RecommenderSays`, `UpdaterSays`, `AdmissionSays`), and `UserThenExtra` adds the
extra argument and the user's. Lists have any length, and the provers cannot
instantiate the library's induction theorems; where induction would be used (the last
occurrence of a flag, the existence and the result of the recursive name
conversion) the proofs take a least counterexample instead, which the
well-foundedness of `<` on the naturals provides (`LeastNatural`).

`StatusReporterProofs`: `Inductive`, `NotEarly`, `TimesRight`. `NeverEarly` relates a write to what
ran some time before it, so the invariant follows the evidence from the cluster
to the write:

* `StatusTruthful`: a status about the current spec describes the pods;
* `ShownKept`: the history contains whatever runs now;
* `CachesTruthful`, `ReportTruthful`: so a cached copy, however old, and the report
  made from it are covered by the history;
* `WriteCurrent`: a write that will be accepted keeps the version that is there or
  announces the process's own;
* `TimesKept`: no transition time lies in the future, and the times in such a write are
  right as a successor of the status that is there, so `TransitionTimes` follows step by step.

`StartupProofs`: `Inductive`, `Agree`, `Current`. `WatcherCurrent` says that, until the
process is told to stop, the watcher's record is what the metrics endpoint was
started with, although the watcher overwrites the record at each change it sees
without stopping; `KeysKept` says that a current cache was acted on unless a key is
left; `DecisionsKept` ties what the process decided to its environment and to the
topology it could or could not read, and the operands of an idle process to these decisions.
Assumed of the constants: some profile exists, the markers for no and for
unresolvable profile are different from each other and from all profiles, and the bounds are
naturals.

`DefaultControllerProofs`: `Inductive`, `MarkedAfter`, `DeletionIsFinal`, for any number
of processes, from the invariant that a process started after the annotation never
gets past its namespace read and that whoever sees a resource or is about to
annotate comes after one existed.

Model-checked only: the liveness properties (`Converges`, `DependentsCollected`,
`OrphansSettle`, `TrafficSettles`, `SettlesAvailable`, `SettingsArrive`,
`EventuallyMarked`), since fairness and ENABLED are outside the prover's reach. Every
invariant and action property of a passing run is a theorem.

## Findings

1. `policy_orphans`: `C` 386 updates a network policy with an object that has no
   controller reference (`SetControllerReference` is only on the create path, `C` 367),
   so a policy that was ever repaired survives its resource, against the comment at
   `C` 216-218.
2. `single_default`: if the process dies, or the patch fails, between creating the
   default resource (`C` 493) and annotating the namespace (`C` 510), a later
   process creates another default after a user deleted the first, against the
   comment at `C` 502.
3. `other_operands`: `CheckVPARecommender` (`status.go` 343) looks at the recommender
   only, so a release is announced although another operand does not run it, against
   the comment at `status.go` 171-172.

## Not modelled

* Foreground deletion of the resource. `Reconcile` never looks at `DeletionTimestamp`, so
  it recreates what the garbage collector removes; who wins depends on relative
  speeds that nothing bounds, and no fairness the system guarantees decides it.
* In `main.go` flag parsing, certificate paths, HTTP/2 and health checks: they set no
  state the operator acts on.
* The status reporter's setters of its configuration, which nobody calls.
* Generated code, the empty validator, manifests, test helpers, events and logs.
