--------------------------- MODULE StatusReporter ---------------------------
(***************************************************************************)
(* The StatusReporter (internal/operator/status.go): a poll that looks at  *)
(* the resource and at the recommender's deployment and writes what it     *)
(* found, with the release version, into the ClusterOperator object.  The  *)
(* resource and the deployment are read from informer caches; the          *)
(* ClusterOperator is read from and written to the API server in two       *)
(* calls, and others write it too.                                         *)
(*                                                                         *)
(* The deployments' status is written by the deployment controller some    *)
(* time after the spec: a deployment record holds what the API object says *)
(* (version, observed, updated, ready) beside what its pods really run     *)
(* (pods).  Rolling the operands out is the Reconciler's work and one step *)
(* here.  No caller of NewStatusReporter exists at this commit; a runnable *)
(* of the manager that returns an error ends the process, which the        *)
(* kubelet restarts, maybe as another release.                             *)
(***************************************************************************)
EXTENDS Naturals

CONSTANTS
    Operands,     \* the deployments of the resource
    Recommender,  \* the one CheckVPARecommender looks at
    Versions,     \* release versions of the operator
    NoVersion,    \* no operand version reported, no pod running
    MaxTime,      \* bound: the clock
    MaxEnv,       \* bound: interventions, pod failures, crashes, upgrades
    MaxFails      \* bound: failing calls

ASSUME OperandsAssumption == Recommender \in Operands
ASSUME VersionsAssumption == Versions # {} /\ NoVersion \notin Versions
ASSUME LimitsAssumption == MaxTime \in Nat /\ MaxEnv \in Nat /\ MaxFails \in Nat

VARIABLES
    vpa,        \* the resource exists
    dep,        \* operand -> its deployment
    vpaCache,   \* the process's cached copies of the resource ...
    depCache,   \* ... and of the recommender's deployment
    co,         \* the ClusterOperator
    version,    \* config.ReleaseVersion of the current or next process
    pc,         \* where the poll is
    report,     \* the status CheckVPARecommender's result asks for
    required,   \* the status about to be written
    stale,      \* the ClusterOperator changed since it was read
    now,        \* the clock
    shown,      \* history: operands seen running version by this process's
                \* cluster since it started (all of them without a resource)
    outdated,   \* history: others changed the ClusterOperator since the
                \* reporter last applied a status
    env, fails  \* budgets used

cluster == <<vpa, dep>>
caches  == <<vpaCache, depCache>>
process == <<version, pc, report, required>>
vars == <<cluster, caches, co, process, stale, now, shown, outdated, env, fails>>

CondTypes == {"Available", "Progressing", "Degraded"}

Notes == Versions \union {"no", "error"}

\* status is "Missing" for a condition that is not in the list.
Condition == [status : {"Missing", "True", "False"}, note : Notes, since : 0..MaxTime]

\* foreign: RelatedObjects or the extension are not what the reporter writes.
Status == [conditions : [CondTypes -> Condition],
           version : Versions \union {NoVersion}, foreign : BOOLEAN]

NoStatus == [conditions |-> [c \in CondTypes |->
                                [status |-> "Missing", note |-> "no", since |-> 0]],
             version |-> NoVersion, foreign |-> FALSE]

Deployment == [live : BOOLEAN, version : Versions \union {NoVersion},
               observed : BOOLEAN, updated : BOOLEAN, ready : BOOLEAN,
               pods : Versions \union {NoVersion}]

NoDeployment == [live |-> FALSE, version |-> NoVersion, observed |-> FALSE,
                 updated |-> FALSE, ready |-> FALSE, pods |-> NoVersion]

Polling == {"vpa", "deployment", "read", "create", "write", "wait"}

TypeOK ==
    /\ vpa \in BOOLEAN /\ vpaCache \in BOOLEAN
    /\ dep \in [Operands -> Deployment] /\ depCache \in Deployment
    /\ co \in [live : BOOLEAN, status : Status]
    /\ version \in Versions /\ pc \in Polling \union {"down", "returned"}
    /\ report \in {"available", "progressing", "degraded"}
    /\ required \in Status
    /\ stale \in BOOLEAN /\ now \in 0..MaxTime
    /\ shown \subseteq Operands /\ outdated \in BOOLEAN
    /\ env \in 0..MaxEnv /\ fails \in 0..MaxFails

-----------------------------------------------------------------------------
(* The statuses the reporter knows, as functions of its release version.   *)

\* Without a version the previous one is reported on.
Conditions(holding, where, note) ==
    [c \in CondTypes |-> [status |-> IF c \in holding THEN "True" ELSE "False",
                          note   |-> IF c = where THEN note ELSE "no",
                          since  |-> 0]]

available == [conditions |-> Conditions({"Available"}, "Available", version),
              version |-> version, foreign |-> FALSE]

degraded == [conditions |-> Conditions({"Available", "Degraded"}, "Degraded", "error"),
             version |-> NoVersion, foreign |-> FALSE]

progressing == [conditions |-> Conditions({"Available", "Progressing"}, "Progressing", version),
                version |-> NoVersion, foreign |-> FALSE]

Reported == CASE report = "available"   -> available
              [] report = "progressing" -> progressing
              [] report = "degraded"    -> degraded

ReleaseVersionMatches(d) == d.version = version

\* Mutant: the status is trusted although it is about an older spec.
DeploymentUpdatedUnobserved(d) == d.updated /\ d.ready

\* updated: UpdatedReplicas = Replicas; ready: AvailableReplicas > 0.
DeploymentUpdated(d) == d.observed /\ d.updated /\ d.ready

ResetProgressingTime(conditions) == [conditions EXCEPT !["Progressing"].since = now]

\* A condition whose status stays keeps its transition time.
Stamp(old, new) ==
    [new EXCEPT !.since = IF old.status = new.status THEN old.since ELSE now]

\* ApplyStatus up to the write: the status required of the ClusterOperator
\* whose status is s.
ApplyStatus(s) ==
    LET r       == Reported
        keep    == IF r.version = NoVersion THEN s.version ELSE r.version
        stamped == [c \in CondTypes |-> Stamp(s.conditions[c], r.conditions[c])]
    IN  [r EXCEPT !.version = keep,
                  !.conditions = IF keep = s.version THEN stamped
                                 ELSE ResetProgressingTime(stamped)]

-----------------------------------------------------------------------------
(* What the properties compare the reports with.                           *)

Running(d) == {o \in Operands : d[o].live /\ d[o].pods = version /\ d[o].ready}

Bystand == UNCHANGED <<cluster, caches, co, stale, now, env, shown>>

-----------------------------------------------------------------------------
(* The process and the poll.                                               *)

Init ==
    /\ vpa \in BOOLEAN /\ vpaCache = vpa
    /\ dep = [o \in Operands |-> NoDeployment] /\ depCache = NoDeployment
    /\ co = [live |-> FALSE, status |-> NoStatus]
    /\ version \in Versions /\ pc = "down"
    /\ report = "progressing" /\ required = NoStatus
    /\ stale = FALSE /\ now = 0 /\ shown = {} /\ outdated = FALSE
    /\ env = 0 /\ fails = 0

\* The caches are listed before the manager starts the reporter, which polls
\* at once.
Start ==
    /\ pc = "down" /\ pc' = "vpa"
    /\ vpaCache' = vpa /\ depCache' = dep[Recommender]
    /\ shown' = IF vpa THEN Running(dep) ELSE Operands
    /\ report' = "progressing"
    /\ UNCHANGED <<cluster, co, version, required, stale, now, outdated, env, fails>>

\* The informers deliver, each at its own pace.
DeliverVPA ==
    /\ pc # "down" /\ vpaCache # vpa /\ vpaCache' = vpa
    /\ UNCHANGED <<cluster, depCache, co, process, stale, now, shown, outdated, env, fails>>

DeliverDeployment ==
    /\ pc # "down" /\ depCache # dep[Recommender] /\ depCache' = dep[Recommender]
    /\ UNCHANGED <<cluster, vpaCache, co, process, stale, now, shown, outdated, env, fails>>

Fail == fails < MaxFails /\ fails' = fails + 1

\* A read of CheckVPARecommender fails: the operator is reported degraded.
CheckFails ==
    /\ pc \in {"vpa", "deployment"} /\ Fail
    /\ pc' = "read" /\ report' = "degraded"
    /\ UNCHANGED <<version, required, outdated>> /\ Bystand

\* CheckVPARecommender's first read: without a resource all is well.
GetVPA ==
    /\ pc = "vpa"
    /\ \/ vpaCache /\ pc' = "deployment" /\ UNCHANGED report
       \/ ~vpaCache /\ pc' = "read" /\ report' = "available"
    /\ UNCHANGED <<version, required, outdated, fails>> /\ Bystand

\* Its second read.
GetDeployment ==
    /\ pc = "deployment" /\ pc' = "read"
    /\ report' = IF /\ depCache.live
                    /\ ReleaseVersionMatches(depCache)
                    /\ DeploymentUpdated(depCache)
                 THEN "available" ELSE "progressing"
    /\ UNCHANGED <<version, required, outdated, fails>> /\ Bystand

\* Mutant: any report that was written ends the poll.
FinishAlways == pc' = "returned"

\* ReportStatus's result: after an available report the poll, and Start with
\* it, returns; otherwise it waits for the interval.
Finish == pc' = IF report = "available" THEN "returned" ELSE "wait"

\* The ClusterOperator is read, or just created, as s.  The required object is
\* a copy with another status, so EnsureClusterOperatorStatus finds its
\* metadata equal and compares the status field by field.
Compare(s) ==
    /\ required' = ApplyStatus(s)
    /\ \/ required' # s /\ pc' = "write" /\ UNCHANGED outdated
       \/ required' = s /\ Finish /\ outdated' = FALSE

\* GetOrCreateClusterOperator and the part of ApplyStatus before the write.
ReadClusterOperator ==
    /\ pc = "read"
    /\ \/ co.live /\ Compare(co.status)
       \/ ~co.live /\ pc' = "create" /\ UNCHANGED <<required, outdated>>
    /\ stale' = FALSE
    /\ UNCHANGED <<cluster, caches, co, version, report, now, shown, env, fails>>

\* Create returns an object without status; when somebody else was faster
\* the error ends Start.
CreateClusterOperator ==
    /\ pc = "create"
    /\ \/ /\ ~co.live
          /\ co' = [live |-> TRUE, status |-> NoStatus]
          /\ Compare(NoStatus)
       \/ co.live /\ pc' = "down" /\ UNCHANGED <<co, required, outdated>>
    /\ stale' = FALSE
    /\ UNCHANGED <<cluster, caches, version, report, now, shown, env, fails>>

\* Mutant: the status is written without the resource version that was read.
UpdateStatusBlind ==
    /\ pc = "write"
    /\ \/ /\ co.live /\ co' = [co EXCEPT !.status = required]
          /\ outdated' = FALSE /\ Finish
       \/ ~co.live /\ pc' = "down" /\ UNCHANGED <<co, outdated>>
    /\ required' = NoStatus
    /\ UNCHANGED <<cluster, caches, version, report, stale, now, shown, env, fails>>

\* UpdateStatus with the resource version that was read: a conflict, or an
\* object that is gone, ends Start.
UpdateStatus ==
    /\ pc = "write"
    /\ \/ /\ ~stale /\ co' = [co EXCEPT !.status = required]
          /\ outdated' = FALSE /\ Finish
       \/ stale /\ pc' = "down" /\ UNCHANGED <<co, outdated>>
    /\ required' = NoStatus
    /\ UNCHANGED <<cluster, caches, version, report, stale, now, shown, env, fails>>

\* A call about the ClusterOperator fails and changes nothing: ReportStatus
\* returns the error, which ends the poll, Start and the process.
ApplyFails ==
    /\ pc \in {"read", "create", "write"} /\ Fail
    /\ pc' = "down" /\ required' = NoStatus
    /\ UNCHANGED <<version, report, outdated>> /\ Bystand

\* Create or UpdateStatus takes effect and its reply is lost: to the process
\* that is an error like any other.
ReplyLost ==
    /\ Fail /\ pc' = "down" /\ required' = NoStatus
    /\ \/ /\ pc = "create" /\ ~co.live
          /\ co' = [live |-> TRUE, status |-> NoStatus] /\ UNCHANGED outdated
       \/ /\ pc = "write" /\ ~stale
          /\ co' = [co EXCEPT !.status = required] /\ outdated' = FALSE
    /\ UNCHANGED <<cluster, caches, version, report, stale, now, shown, env>>

\* PollUntilContextCancel's next round.
Poll ==
    /\ pc = "wait" /\ pc' = "vpa" /\ report' = "progressing"
    /\ UNCHANGED <<version, required, outdated, fails>> /\ Bystand

-----------------------------------------------------------------------------
(* The cluster around it.                                                  *)

\* The resource or a deployment changes; shown records what runs now.
Become(v, d) ==
    /\ vpa' = v /\ dep' = d
    /\ shown' = IF v THEN shown \union Running(d) ELSE Operands
    /\ UNCHANGED <<caches, co, process, stale, now, outdated, fails>>

\* A running operator (Reconciler) creates a deployment, whose status is
\* all zero, or updates its spec, whose old status stays.
RollOut(o) ==
    /\ pc # "down" /\ vpa
    /\ \/ /\ ~dep[o].live
          /\ Become(vpa, [dep EXCEPT ![o] = [NoDeployment EXCEPT
                        !.live = TRUE, !.version = version, !.updated = TRUE]])
       \/ /\ dep[o].live /\ dep[o].version # version
          /\ Become(vpa, [dep EXCEPT ![o].version = version, ![o].observed = FALSE])
    /\ UNCHANGED env

\* The deployment controller looks at the spec ...
ObserveSpec(o) ==
    /\ dep[o].live /\ ~dep[o].observed
    /\ Become(vpa, [dep EXCEPT ![o].observed = TRUE,
                          ![o].updated = dep[o].pods \in {NoVersion, dep[o].version}])
    /\ UNCHANGED env

\* ... and replaces the pods.
ReplacePods(o) ==
    /\ dep[o].live /\ dep[o].observed
    /\ dep[o].pods # dep[o].version \/ ~dep[o].ready
    /\ Become(vpa, [dep EXCEPT ![o].pods = dep[o].version,
                          ![o].updated = TRUE, ![o].ready = TRUE])
    /\ UNCHANGED env

Collect(o) ==
    /\ ~vpa /\ dep[o].live
    /\ Become(vpa, [dep EXCEPT ![o] = NoDeployment])
    /\ UNCHANGED env

Intervene == env < MaxEnv /\ env' = env + 1

PodFails(o) ==
    /\ Intervene /\ dep[o].live /\ dep[o].ready
    /\ Become(vpa, [dep EXCEPT ![o].ready = FALSE])

ChangeVPA ==
    /\ Intervene /\ Become(~vpa, dep)

\* Others create (the cluster version operator), edit or delete the
\* ClusterOperator.
ChangeClusterOperator ==
    /\ Intervene
    /\ \/ ~co.live /\ co' = [live |-> TRUE, status |-> NoStatus]
       \/ co.live /\ co' = [live |-> FALSE, status |-> NoStatus]
       \/ /\ co.live /\ ~co.status.foreign
          /\ co' = [co EXCEPT !.status.foreign = TRUE]
       \/ /\ co.live /\ co.status.conditions["Degraded"].status = "False"
          /\ co' = [co EXCEPT !.status.conditions["Degraded"] =
                       [status |-> "True", note |-> "error", since |-> now]]
    /\ stale' = TRUE /\ outdated' = TRUE
    /\ UNCHANGED <<cluster, caches, process, now, shown, fails>>

\* The pod is killed, or replaced by one of another release.
Crash ==
    /\ Intervene /\ pc # "down" /\ pc' = "down" /\ required' = NoStatus
    /\ version' \in Versions
    /\ shown' = IF vpa THEN {} ELSE Operands
    /\ UNCHANGED <<cluster, caches, co, report, stale, now, outdated, fails>>

Tick ==
    /\ now < MaxTime /\ now' = now + 1
    /\ UNCHANGED <<cluster, caches, co, process, stale, shown, outdated, env, fails>>

-----------------------------------------------------------------------------
Reporter == \/ GetVPA \/ GetDeployment \/ ReadClusterOperator
            \/ CreateClusterOperator \/ UpdateStatus \/ Poll

Rollout(o) == RollOut(o) \/ ObserveSpec(o) \/ ReplacePods(o) \/ Collect(o)

Next == \/ Start \/ DeliverVPA \/ DeliverDeployment \/ Reporter
        \/ CheckFails \/ ApplyFails \/ ReplyLost
        \/ \E o \in Operands : Rollout(o) \/ PodFails(o)
        \/ ChangeVPA \/ ChangeClusterOperator \/ Crash \/ Tick

Spec == Init /\ [][Next]_vars

\* The pod is restarted, the poll goes on, informers deliver, the
\* operands are rolled out.
Fairness ==
    /\ WF_vars(Start) /\ WF_vars(Reporter)
    /\ WF_vars(DeliverVPA) /\ WF_vars(DeliverDeployment)
    /\ \A o \in Operands : WF_vars(Rollout(o))

FairSpec == Spec /\ Fairness

-----------------------------------------------------------------------------
(* Correctness.                                                            *)

\* The reported version moves to the process's release.
Announces == co'.live /\ co'.status.version \notin {co.status.version, NoVersion}

\* ReportStatus tells the cluster version operator that a release is rolled
\* out only if that is so: since this process started, the recommender's pods
\* really ran this release and were ready, or there was no resource.  Neither
\* a cached deployment, nor a status that is still about the previous spec,
\* nor what an earlier process saw is taken for that.
NeverEarly == [][Announces => co'.status.version = version /\ Recommender \in shown]_vars

\* What the comment on available says ("should only be called if the operands
\* are fully updated and available"), for every operand.
AllOperandsUpdated == [][Announces => shown = Operands]_vars

\* The transition times of status t, as a successor of status s: none moves
\* back, one moves only with the status of its condition or, for Progressing,
\* with the version, and a new version makes Progressing the latest transition.
Transitions(s, t) ==
    LET announced == t.version \notin {s.version, NoVersion}
    IN  \A c \in CondTypes :
            LET old == s.conditions[c]
                new == t.conditions[c]
            IN  /\ old.status # "Missing" => new.since >= old.since
                /\ new.since # old.since =>
                      new.status # old.status \/ (c = "Progressing" /\ announced)
                /\ announced => new.since <= t.conditions["Progressing"].since

\* LastTransitionTime (ApplyStatus, ResetProgressingTime) is right after every
\* step, also when others write conditions, or the clock moves on, between the
\* reporter's read and its write.
TransitionTimes ==
    [][co.live /\ co'.live => Transitions(co.status, co'.status)]_vars

\* However often calls fail, conflict or the process restarts, once that stops
\* the poll ends, and ends with the ClusterOperator saying that the running
\* release is available, neither progressing nor degraded, unless somebody
\* changed it after the poll, which nobody repairs.
SettlesAvailable ==
    <>[](/\ pc = "returned"
         /\ \/ outdated
            \/ /\ co.live /\ co.status.version = version
               /\ \A c \in CondTypes :
                     co.status.conditions[c].status = IF c = "Available" THEN "True" ELSE "False")

-----------------------------------------------------------------------------
(* The inductive invariant behind NeverEarly and TransitionTimes.          *)

\* A deployment's status, once it is about the current spec, tells the truth,
\* a deployment without pods has none that are ready, and one that exists is
\* of some release.
StatusTruthful ==
    \A o \in Operands :
        /\ dep[o].live /\ dep[o].observed /\ dep[o].updated /\ dep[o].ready =>
              dep[o].pods = dep[o].version
        /\ dep[o].pods = NoVersion => ~dep[o].ready
        /\ dep[o].live => dep[o].version # NoVersion

\* The history keeps up with the cluster ...
ShownKept == pc # "down" => IF vpa THEN Running(dep) \subseteq shown
                            ELSE shown = Operands

\* ... so what the process reads from its caches, however old, was true.
CachesTruthful ==
    pc # "down" =>
        /\ ~vpaCache => Recommender \in shown
        /\ /\ depCache.live /\ depCache.version = version
           /\ depCache.observed /\ depCache.updated /\ depCache.ready
           => Recommender \in shown

ReportTruthful ==
    pc \in {"read", "create", "write"} /\ report = "available" =>
        Recommender \in shown

\* A write that the API server will accept keeps the version that is there or
\* announces the process's own.
WriteCurrent ==
    pc = "write" /\ ~stale =>
        /\ co.live
        /\ \/ required.version = co.status.version
           \/ report = "available" /\ required.version = version

\* No transition lies in the future, and the times in a write that the API
\* server will accept are right for the status that is there.
TimesKept ==
    /\ \A c \in CondTypes : /\ co.status.conditions[c].since <= now
                            /\ required.conditions[c].since <= now
    /\ pc = "write" /\ ~stale => Transitions(co.status, required)

IInv == /\ TypeOK /\ StatusTruthful /\ ShownKept /\ CachesTruthful
        /\ ReportTruthful /\ WriteCurrent /\ TimesKept
=============================================================================
