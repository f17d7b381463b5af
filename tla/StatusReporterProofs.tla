------------------------ MODULE StatusReporterProofs ------------------------
(* Proofs about StatusReporter, for every set of operands and versions and *)
(* every bound: a release is never announced early, and the transition     *)
(* times are right.                                                        *)
EXTENDS StatusReporter, TLAPS

USE OperandsAssumption, VersionsAssumption, LimitsAssumption

-----------------------------------------------------------------------------
(* The statuses.                                                           *)

\* The empty status and a missing deployment are well-typed.
LEMMA ConstantsTyped == NoStatus \in Status /\ NoDeployment \in Deployment
BY DEF NoStatus, Status, Condition, Notes, NoDeployment, Deployment

\* The conditions of every report are well-typed.
LEMMA ConditionsTyped ==
    ASSUME NEW holding, NEW where, NEW note \in Notes
    PROVE  Conditions(holding, where, note) \in [CondTypes -> Condition]
<1>1. ASSUME NEW x \in {"True", "False"}, NEW y \in Notes
      PROVE  [status |-> x, note |-> y, since |-> 0] \in Condition
  BY <1>1 DEF Condition
<1>2. "no" \in Notes
  BY DEF Notes
<1>. QED
  BY <1>1, <1>2 DEF Conditions

\* Every report is a well-typed status; only an available one has a version.
LEMMA ReportedTyped ==
    ASSUME TypeOK
    PROVE  /\ Reported \in Status
           /\ Reported.version = IF report = "available" THEN version ELSE NoVersion
<1>1. /\ version \in Versions
      /\ report \in {"available", "progressing", "degraded"}
  BY DEF TypeOK
<1>2. version \in Notes /\ "error" \in Notes
  BY <1>1 DEF Notes
<1>3. CASE report = "available"
  <2>1. Conditions({"Available"}, "Available", version) \in [CondTypes -> Condition]
    BY <1>2, ConditionsTyped
  <2>. QED
    BY <1>1, <1>3, <2>1 DEF Reported, available, Status
<1>4. CASE report = "progressing"
  <2>1. Conditions({"Available", "Progressing"}, "Progressing", version)
           \in [CondTypes -> Condition]
    BY <1>2, ConditionsTyped
  <2>. QED
    BY <1>4, <2>1 DEF Reported, progressing, Status
<1>5. CASE report = "degraded"
  <2>1. Conditions({"Available", "Degraded"}, "Degraded", "error")
           \in [CondTypes -> Condition]
    BY <1>2, ConditionsTyped
  <2>. QED
    BY <1>5, <2>1 DEF Reported, degraded, Status
<1>. QED
  BY <1>1, <1>3, <1>4, <1>5

\* The parts ApplyStatus puts together: the reported version or the one that
\* was read, and the reported conditions with their transition times.
LEMMA ApplyStatusParts ==
    ASSUME TypeOK, NEW s \in Status
    PROVE  LET t == ApplyStatus(s) IN
           /\ t \in Status
           /\ \/ t.version = s.version
              \/ report = "available" /\ t.version = version
           /\ \A c \in CondTypes :
                 /\ t.conditions[c].status = Reported.conditions[c].status
                 /\ t.conditions[c].since =
                       IF c = "Progressing" /\ t.version # s.version THEN now
                       ELSE IF s.conditions[c].status = t.conditions[c].status
                       THEN s.conditions[c].since ELSE now
<1>. DEFINE r       == Reported
            keep    == IF r.version = NoVersion THEN s.version ELSE r.version
            stamped == [c \in CondTypes |-> Stamp(s.conditions[c], r.conditions[c])]
            conds   == IF keep = s.version THEN stamped ELSE ResetProgressingTime(stamped)
<1>1. now \in 0..MaxTime /\ version \in Versions
  BY DEF TypeOK
<1>2. r \in Status /\ r.version = IF report = "available" THEN version ELSE NoVersion
  BY ReportedTyped
<1>. HIDE DEF r
<1>3. /\ keep \in Versions \union {NoVersion}
      /\ keep = s.version \/ (report = "available" /\ keep = version)
  BY <1>1, <1>2 DEF Status
<1>4. ASSUME NEW c \in CondTypes
      PROVE  /\ Stamp(s.conditions[c], r.conditions[c]) \in Condition
             /\ Stamp(s.conditions[c], r.conditions[c]).status = r.conditions[c].status
             /\ Stamp(s.conditions[c], r.conditions[c]).since =
                   IF s.conditions[c].status = r.conditions[c].status
                   THEN s.conditions[c].since ELSE now
  <2>1. s.conditions[c] \in Condition /\ r.conditions[c] \in Condition
    BY <1>2 DEF Status
  <2>. QED
    BY <1>1, <2>1 DEF Stamp, Condition
<1>5. /\ stamped \in [CondTypes -> Condition]
      /\ \A c \in CondTypes :
            /\ stamped[c].status = r.conditions[c].status
            /\ stamped[c].since = IF s.conditions[c].status = r.conditions[c].status
                                  THEN s.conditions[c].since ELSE now
  BY <1>4
<1>. HIDE DEF stamped, keep
<1>6. /\ conds \in [CondTypes -> Condition]
      /\ \A c \in CondTypes :
            /\ conds[c].status = stamped[c].status
            /\ conds[c].since = IF c = "Progressing" /\ keep # s.version THEN now
                                ELSE stamped[c].since
  <2>1. /\ \A c \in CondTypes : stamped[c] \in Condition
        /\ "Progressing" \in CondTypes
    BY <1>5 DEF CondTypes
  <2>2. LET p == [stamped["Progressing"] EXCEPT !.since = now]
        IN  p \in Condition /\ p.status = stamped["Progressing"].status /\ p.since = now
    BY <1>1, <2>1 DEF Condition
  <2>. QED
    BY <1>5, <2>1, <2>2 DEF ResetProgressingTime
<1>. HIDE DEF conds
<1>7. ApplyStatus(s) = [r EXCEPT !.version = keep, !.conditions = conds]
  BY DEF ApplyStatus, r, keep, stamped, conds
<1>8. /\ ApplyStatus(s) \in Status
      /\ ApplyStatus(s).version = keep /\ ApplyStatus(s).conditions = conds
  BY <1>2, <1>3, <1>6, <1>7 DEF Status
<1>. QED
  BY <1>3, <1>5, <1>6, <1>8 DEF r

\* The status about to be written has the right transition times, given that
\* none of those that were read lies in the future.
LEMMA ApplyStatusTimes ==
    ASSUME TypeOK, NEW s \in Status,
           \A c \in CondTypes : s.conditions[c].since <= now
    PROVE  /\ \A c \in CondTypes : ApplyStatus(s).conditions[c].since <= now
           /\ Transitions(s, ApplyStatus(s))
<1>. DEFINE t == ApplyStatus(s)
<1>1. now \in Nat /\ \A c \in CondTypes : s.conditions[c].since \in Nat
  BY DEF TypeOK, Status, Condition
<1>2. \A c \in CondTypes :
         t.conditions[c].since =
             IF c = "Progressing" /\ t.version # s.version THEN now
             ELSE IF s.conditions[c].status = t.conditions[c].status
             THEN s.conditions[c].since ELSE now
  BY ApplyStatusParts
<1>3. "Progressing" \in CondTypes
  BY DEF CondTypes
<1>. HIDE DEF t
<1>4. \A c \in CondTypes : t.conditions[c].since <= now
  BY <1>1, <1>2
<1>5. Transitions(s, t)
  <2>. DEFINE announced == t.version \notin {s.version, NoVersion}
  <2>1. announced => t.conditions["Progressing"].since = now /\ t.version # s.version
    BY <1>2, <1>3
  <2>2. ASSUME NEW c \in CondTypes
        PROVE  /\ t.conditions[c].since >= s.conditions[c].since
               /\ t.conditions[c].since # s.conditions[c].since =>
                     \/ t.conditions[c].status # s.conditions[c].status
                     \/ c = "Progressing" /\ t.version # s.version
    BY <1>1, <1>2
  <2>3. t.version # s.version => announced
    BY ApplyStatusParts DEF TypeOK, t
  <2>. QED
    BY <1>4, <2>1, <2>2, <2>3 DEF Transitions
<1>. QED
  BY <1>4, <1>5 DEF t

-----------------------------------------------------------------------------
(* Types.                                                                  *)

\* A change of the cluster keeps its variables well-typed.
LEMMA BecomeTyped ==
    ASSUME TypeOK, NEW v \in BOOLEAN, NEW d \in [Operands -> Deployment],
           Become(v, d), env' \in 0..MaxEnv
    PROVE  TypeOK'
BY DEF TypeOK, Become, Running, caches, process

\* Every deployment the cluster's steps produce is well-typed.
LEMMA DeploymentsTyped ==
    ASSUME TypeOK, NEW o \in Operands
    PROVE  /\ Rollout(o) => \E d \in [Operands -> Deployment] : Become(vpa, d)
           /\ PodFails(o) => \E d \in [Operands -> Deployment] : Become(vpa, d)
<1>1. /\ dep \in [Operands -> Deployment] /\ dep[o] \in Deployment
      /\ version \in Versions /\ NoDeployment \in Deployment
  BY ConstantsTyped DEF TypeOK
<1>2. ASSUME NEW x \in Deployment PROVE [dep EXCEPT ![o] = x] \in [Operands -> Deployment]
  BY <1>1
<1>3. /\ [NoDeployment EXCEPT !.live = TRUE, !.version = version, !.updated = TRUE] \in Deployment
      /\ [dep[o] EXCEPT !.version = version, !.observed = FALSE] \in Deployment
      /\ [dep[o] EXCEPT !.pods = dep[o].version, !.updated = TRUE, !.ready = TRUE] \in Deployment
      /\ [dep[o] EXCEPT !.ready = FALSE] \in Deployment
  BY <1>1 DEF Deployment
<1>. DEFINE current == dep[o].pods \in {NoVersion, dep[o].version}
<1>9. [dep[o] EXCEPT !.observed = TRUE, !.updated = current] \in Deployment
  <2>1. current \in BOOLEAN
    OBVIOUS
  <2>. HIDE DEF current
  <2>. QED
    BY <1>1, <2>1 DEF Deployment
<1>4. CASE RollOut(o)
  <2>1. [dep EXCEPT ![o].version = version, ![o].observed = FALSE]
           = [dep EXCEPT ![o] = [dep[o] EXCEPT !.version = version, !.observed = FALSE]]
    BY <1>1
  <2>. QED
    BY <1>2, <1>3, <1>4, <2>1 DEF RollOut
<1>5. CASE ObserveSpec(o)
  <2>1. [dep EXCEPT ![o].observed = TRUE, ![o].updated = current]
           = [dep EXCEPT ![o] = [dep[o] EXCEPT !.observed = TRUE, !.updated = current]]
    BY <1>1
  <2>. QED
    BY <1>2, <1>9, <1>5, <2>1 DEF ObserveSpec
<1>6. CASE ReplacePods(o)
  <2>1. [dep EXCEPT ![o].pods = dep[o].version, ![o].updated = TRUE, ![o].ready = TRUE]
           = [dep EXCEPT ![o] = [dep[o] EXCEPT !.pods = dep[o].version,
                                               !.updated = TRUE, !.ready = TRUE]]
    BY <1>1
  <2>. QED
    BY <1>2, <1>3, <1>6, <2>1 DEF ReplacePods
<1>7. CASE Collect(o)
  BY <1>1, <1>2, <1>7 DEF Collect
<1>8. CASE PodFails(o)
  BY <1>1, <1>2, <1>3, <1>8 DEF PodFails
<1>. QED
  BY <1>4, <1>5, <1>6, <1>7, <1>8 DEF Rollout

\* Every initial state is well-typed.
LEMMA TypeInit == Init => TypeOK
<1>. SUFFICES ASSUME Init PROVE TypeOK
  OBVIOUS
<1>1. /\ co \in [live : BOOLEAN, status : Status] /\ required \in Status
      /\ dep \in [Operands -> Deployment] /\ depCache \in Deployment
  BY ConstantsTyped DEF Init
<1>2. now \in 0..MaxTime /\ env \in 0..MaxEnv /\ fails \in 0..MaxFails
  BY DEF Init
<1>3. /\ vpa \in BOOLEAN /\ vpaCache \in BOOLEAN /\ stale \in BOOLEAN
      /\ outdated \in BOOLEAN
  BY DEF Init
<1>4. /\ version \in Versions /\ pc \in Polling \union {"down", "returned"}
      /\ report \in {"available", "progressing", "degraded"}
      /\ shown \subseteq Operands
  BY DEF Init
<1>. QED
  BY <1>1, <1>2, <1>3, <1>4 DEF TypeOK

\* Every step keeps the variables well-typed.
LEMMA TypeStep == TypeOK /\ [Next]_vars => TypeOK'
<1>. SUFFICES ASSUME TypeOK, [Next]_vars PROVE TypeOK'
  OBVIOUS
<1>. USE ConstantsTyped
<1>1. CASE UNCHANGED vars
  BY <1>1 DEF TypeOK, vars, cluster, caches, process
<1>2. CASE Start
  BY <1>2 DEF TypeOK, Start, Running, cluster, caches, process, Polling
<1>3. CASE DeliverVPA \/ DeliverDeployment
  BY <1>3 DEF TypeOK, DeliverVPA, DeliverDeployment, cluster, process
<1>4. CASE GetVPA \/ GetDeployment \/ Poll \/ CheckFails \/ ApplyFails
  BY <1>4 DEF TypeOK, GetVPA, GetDeployment, Poll, CheckFails, ApplyFails, Fail,
              Bystand, cluster, caches, process, Polling
<1>5. ASSUME NEW s \in Status, Compare(s)
      PROVE  /\ required' \in Status /\ pc' \in Polling \union {"down", "returned"}
             /\ outdated' \in BOOLEAN
  BY <1>5, ApplyStatusParts DEF Compare, Finish, Polling, TypeOK
<1>6. CASE ReadClusterOperator
  <2>1. co.status \in Status
    BY DEF TypeOK
  <2>2. /\ required' \in Status /\ pc' \in Polling \union {"down", "returned"}
        /\ outdated' \in BOOLEAN
    <3>1. CASE Compare(co.status)
      BY <1>5, <2>1, <3>1
    <3>2. CASE pc' = "create" /\ UNCHANGED <<required, outdated>>
      BY <3>2 DEF TypeOK, Polling
    <3>. QED
      BY <1>6, <3>1, <3>2 DEF ReadClusterOperator
  <2>3. UNCHANGED <<vpa, dep, vpaCache, depCache, co, version, report, now, shown, env, fails>>
        /\ stale' \in BOOLEAN
    BY <1>6 DEF ReadClusterOperator, cluster, caches
  <2>. QED
    BY <2>2, <2>3 DEF TypeOK
<1>7. CASE CreateClusterOperator
  <2>1. /\ required' \in Status /\ pc' \in Polling \union {"down", "returned"}
        /\ outdated' \in BOOLEAN
    <3>1. CASE Compare(NoStatus)
      BY <1>5, <3>1
    <3>2. CASE pc' = "down" /\ UNCHANGED <<co, required, outdated>>
      BY <3>2 DEF TypeOK
    <3>. QED
      BY <1>7, <3>1, <3>2 DEF CreateClusterOperator
  <2>2. UNCHANGED <<vpa, dep, vpaCache, depCache, version, report, now, shown, env, fails>>
        /\ stale' \in BOOLEAN
    BY <1>7 DEF CreateClusterOperator, cluster, caches
  <2>3. co' \in [live : BOOLEAN, status : Status]
    <3>1. co \in [live : BOOLEAN, status : Status]
      BY DEF TypeOK
    <3>2. co' = [live |-> TRUE, status |-> NoStatus] \/ co' = co
      BY <1>7 DEF CreateClusterOperator
    <3>3. ASSUME NEW b \in BOOLEAN
          PROVE  [live |-> b, status |-> NoStatus] \in [live : BOOLEAN, status : Status]
      OBVIOUS
    <3>. QED
      BY <3>1, <3>2, <3>3, TRUE \in BOOLEAN
  <2>. QED
    BY <2>1, <2>2, <2>3 DEF TypeOK
<1>8. CASE UpdateStatus
  BY <1>8 DEF UpdateStatus, TypeOK, Finish, Polling, cluster, caches
<1>14. CASE ReplyLost
  <2>1. co \in [live : BOOLEAN, status : Status] /\ required \in Status
    BY DEF TypeOK
  <2>2. [live |-> TRUE, status |-> NoStatus] \in [live : BOOLEAN, status : Status]
    OBVIOUS
  <2>3. [co EXCEPT !.status = required] \in [live : BOOLEAN, status : Status]
    BY <2>1
  <2>4. co' \in [live : BOOLEAN, status : Status] /\ outdated' \in BOOLEAN
    BY <1>14, <2>2, <2>3 DEF ReplyLost, TypeOK
  <2>5. fails' \in 0..MaxFails /\ pc' \in Polling \union {"down", "returned"}
    BY <1>14 DEF ReplyLost, Fail, TypeOK
  <2>. QED
    BY <1>14, <2>4, <2>5 DEF ReplyLost, TypeOK, cluster, caches
<1>9. ASSUME NEW o \in Operands, Rollout(o) \/ PodFails(o) PROVE TypeOK'
  <2>1. env' \in 0..MaxEnv
    BY <1>9 DEF TypeOK, Rollout, RollOut, ObserveSpec, ReplacePods, Collect, PodFails, Intervene
  <2>2. vpa \in BOOLEAN
    BY DEF TypeOK
  <2>. QED
    BY <1>9, <2>1, <2>2, BecomeTyped, DeploymentsTyped
<1>10. CASE ChangeVPA
  <2>1. env' \in 0..MaxEnv /\ dep \in [Operands -> Deployment] /\ (~vpa) \in BOOLEAN
    BY <1>10 DEF TypeOK, ChangeVPA, Intervene
  <2>. QED
    BY <1>10, <2>1, BecomeTyped DEF ChangeVPA
<1>11. CASE ChangeClusterOperator
  <2>1. co' \in [live : BOOLEAN, status : Status]
    <3>1. /\ co.status \in Status /\ co \in [live : BOOLEAN, status : Status]
          /\ co.status.conditions \in [CondTypes -> Condition]
      <4>1. co.status \in Status /\ co \in [live : BOOLEAN, status : Status]
        BY DEF TypeOK
      <4>. QED
        BY <4>1 DEF Status
    <3>2. [status |-> "True", note |-> "error", since |-> now] \in Condition
      BY DEF TypeOK, Condition, Notes
    <3>3. [co.status EXCEPT !.foreign = TRUE] \in Status
      BY <3>1 DEF Status
    <3>4. ASSUME NEW x \in Condition
          PROVE  [co.status EXCEPT !.conditions =
                    [co.status.conditions EXCEPT !["Degraded"] = x]] \in Status
      BY <3>1, <3>4 DEF Status
    <3>5. [co EXCEPT !.status.foreign = TRUE]
             = [co EXCEPT !.status = [co.status EXCEPT !.foreign = TRUE]]
      BY <3>1
    <3>6. ASSUME NEW x \in Condition
          PROVE  [co EXCEPT !.status.conditions["Degraded"] = x]
                    = [co EXCEPT !.status = [co.status EXCEPT !.conditions =
                          [co.status.conditions EXCEPT !["Degraded"] = x]]]
      BY <3>1
    <3>7. ASSUME NEW t \in Status PROVE [co EXCEPT !.status = t] \in [live : BOOLEAN, status : Status]
      BY <3>1
    <3>8. CASE \E b \in BOOLEAN : co' = [live |-> b, status |-> NoStatus]
      BY <3>8
    <3>9. CASE co' = [co EXCEPT !.status.foreign = TRUE]
      BY <3>3, <3>5, <3>7, <3>9
    <3>10. CASE co' = [co EXCEPT !.status.conditions["Degraded"] =
                          [status |-> "True", note |-> "error", since |-> now]]
      BY <3>2, <3>4, <3>6, <3>7, <3>10
    <3>. QED
      BY <1>11, <3>8, <3>9, <3>10 DEF ChangeClusterOperator
  <2>. QED
    BY <1>11, <2>1 DEF ChangeClusterOperator, TypeOK, Intervene, cluster, caches, process
<1>12. CASE Crash
  BY <1>12 DEF Crash, Intervene, TypeOK, cluster, caches
<1>13. CASE Tick
  BY <1>13 DEF Tick, TypeOK, cluster, caches, process
<1>. QED
  BY <1>1, <1>2, <1>3, <1>4, <1>6, <1>7, <1>8, <1>9, <1>10, <1>11, <1>12, <1>13,
     <1>14 DEF Next, Reporter

\* TypeOK is an invariant of the reporter.
THEOREM TypeCorrect == Spec => []TypeOK
BY TypeInit, TypeStep, PTL DEF Spec

-----------------------------------------------------------------------------
(* The inductive invariant.                                                *)

\* Whatever changes in the cluster, what was shown stays shown, and so the
\* caches and the report stay truthful.
LEMMA BecomeKeeps ==
    ASSUME IInv, NEW v \in BOOLEAN, NEW d, Become(v, d)
    PROVE  ShownKept' /\ CachesTruthful' /\ ReportTruthful' /\ WriteCurrent'
<1>1. /\ shown \subseteq shown' /\ vpa' = v /\ dep' = d
      /\ shown' = IF v THEN shown \union Running(d) ELSE Operands
      /\ UNCHANGED <<vpaCache, depCache, co, version, pc, report, required, stale>>
  BY DEF Become, IInv, TypeOK, caches, process
<1>2. Running(dep)' = Running(d)
  BY <1>1 DEF Running
<1>. HIDE DEF Become, Running
<1>3. ShownKept'
  BY <1>1, <1>2 DEF ShownKept
<1>4. CachesTruthful' /\ ReportTruthful' /\ WriteCurrent'
  BY <1>1 DEF IInv, CachesTruthful, ReportTruthful, WriteCurrent
<1>. QED
  BY <1>3, <1>4

\* A deployment that is changed to a truthful one leaves all truthful.
LEMMA OneTruthful ==
    ASSUME StatusTruthful, dep \in [Operands -> Deployment],
           NEW o \in Operands, NEW x, dep' = [dep EXCEPT ![o] = x],
           x.live /\ x.observed /\ x.updated /\ x.ready => x.pods = x.version,
           x.pods = NoVersion => ~x.ready,
           x.live => x.version # NoVersion
    PROVE  StatusTruthful'
<1>. SUFFICES ASSUME NEW p \in Operands
              PROVE  /\ dep'[p].live /\ dep'[p].observed /\ dep'[p].updated /\ dep'[p].ready =>
                           dep'[p].pods = dep'[p].version
                     /\ dep'[p].pods = NoVersion => ~dep'[p].ready
                     /\ dep'[p].live => dep'[p].version # NoVersion
  BY DEF StatusTruthful
<1>1. CASE p = o
  BY <1>1
<1>2. CASE p # o
  BY <1>2 DEF StatusTruthful
<1>. QED
  BY <1>1, <1>2

\* The deployment controller, the operator and the garbage collector keep
\* every deployment's status truthful.
LEMMA RolloutTruthful ==
    ASSUME IInv, NEW o \in Operands, Rollout(o) \/ PodFails(o)
    PROVE  StatusTruthful'
<1>1. /\ StatusTruthful /\ dep \in [Operands -> Deployment] /\ version \in Versions
      /\ dep[o] \in Deployment
  BY DEF IInv, TypeOK
<1>2. CASE RollOut(o)
  <2>1. CASE dep' = [dep EXCEPT ![o] = [NoDeployment EXCEPT
                        !.live = TRUE, !.version = version, !.updated = TRUE]]
    BY <1>1, <2>1, OneTruthful DEF NoDeployment
  <2>2. CASE dep' = [dep EXCEPT ![o].version = version, ![o].observed = FALSE]
    <3>1. dep' = [dep EXCEPT ![o] = [dep[o] EXCEPT !.version = version, !.observed = FALSE]]
      BY <1>1, <2>2
    <3>. QED
      BY <1>1, <3>1, OneTruthful DEF StatusTruthful, Deployment
  <2>. QED
    BY <1>2, <2>1, <2>2 DEF RollOut, Become
<1>3. CASE ObserveSpec(o)
  <2>. DEFINE current == dep[o].pods \in {NoVersion, dep[o].version}
              x       == [dep[o] EXCEPT !.observed = TRUE, !.updated = current]
  <2>1. dep' = [dep EXCEPT ![o] = x]
    BY <1>1, <1>3 DEF ObserveSpec, Become
  <2>2. /\ x.updated = current /\ x.ready = dep[o].ready /\ x.pods = dep[o].pods
        /\ x.version = dep[o].version /\ x.live = dep[o].live
    BY <1>1 DEF Deployment
  <2>3. /\ dep[o].pods = NoVersion => ~dep[o].ready
        /\ dep[o].live => dep[o].version # NoVersion
    BY <1>1 DEF StatusTruthful
  <2>4. current /\ dep[o].ready => dep[o].pods = dep[o].version
    BY <2>3
  <2>. HIDE DEF x, current
  <2>. QED
    BY <1>1, <2>1, <2>2, <2>3, <2>4, OneTruthful
<1>4. CASE ReplacePods(o)
  <2>. DEFINE x == [dep[o] EXCEPT !.pods = dep[o].version, !.updated = TRUE, !.ready = TRUE]
  <2>1. dep' = [dep EXCEPT ![o] = x]
    BY <1>1, <1>4 DEF ReplacePods, Become
  <2>2. x.pods = x.version /\ x.version = dep[o].version /\ x.live = dep[o].live
    BY <1>1 DEF Deployment
  <2>3. dep[o].live /\ dep[o].version # NoVersion
    BY <1>1, <1>4 DEF ReplacePods, StatusTruthful
  <2>. HIDE DEF x
  <2>. QED
    BY <1>1, <2>1, <2>2, <2>3, OneTruthful
<1>5. CASE Collect(o)
  BY <1>1, <1>5, OneTruthful DEF Collect, Become, NoDeployment
<1>6. CASE PodFails(o)
  <2>. DEFINE x == [dep[o] EXCEPT !.ready = FALSE]
  <2>1. dep' = [dep EXCEPT ![o] = x]
    BY <1>1, <1>6 DEF PodFails, Become
  <2>2. /\ ~x.ready /\ x.version = dep[o].version /\ x.live = dep[o].live
        /\ dep[o].live => dep[o].version # NoVersion
    BY <1>1 DEF Deployment, StatusTruthful
  <2>. HIDE DEF x
  <2>. QED
    BY <1>1, <2>1, <2>2, OneTruthful
<1>. QED
  BY <1>2, <1>3, <1>4, <1>5, <1>6 DEF Rollout

\* The status a poll is about to write keeps the version it read or announces
\* the process's own.
LEMMA CompareKeeps ==
    ASSUME TypeOK, NEW s \in Status, Compare(s), pc' = "write"
    PROVE  \/ required'.version = s.version
           \/ report = "available" /\ required'.version = version
BY ApplyStatusParts DEF Compare

\* Every initial state satisfies the inductive invariant.
LEMMA InvInit == Init => IInv
<1>. SUFFICES ASSUME Init PROVE IInv
  OBVIOUS
<1>1. StatusTruthful
  BY DEF Init, NoDeployment, StatusTruthful
<1>2. ShownKept /\ CachesTruthful /\ ReportTruthful /\ WriteCurrent
  BY DEF Init, ShownKept, CachesTruthful, ReportTruthful, WriteCurrent
<1>3. TimesKept
  BY DEF Init, NoStatus, TimesKept
<1>. QED
  BY <1>1, <1>2, <1>3, TypeInit DEF IInv

\* Only these steps touch the ClusterOperator.
LEMMA WhoWrites ==
    Next => \/ UpdateStatus \/ CreateClusterOperator \/ ReplyLost
            \/ ChangeClusterOperator \/ UNCHANGED co
BY DEF Next, Reporter, Rollout, Start, DeliverVPA, DeliverDeployment, GetVPA,
       GetDeployment, ReadClusterOperator, Poll, CheckFails, ApplyFails, RollOut,
       ObserveSpec, ReplacePods, Collect, PodFails, ChangeVPA, Become, Crash, Tick,
       Bystand

\* What others make of the ClusterOperator: its transition times stay right,
\* and none lies in the future.
LEMMA OthersTimes ==
    ASSUME TypeOK, ChangeClusterOperator,
           \A c \in CondTypes : co.status.conditions[c].since <= now
    PROVE  /\ \A c \in CondTypes : co'.status.conditions[c].since <= now
           /\ co'.status.version \in {co.status.version, NoVersion}
           /\ co.live /\ co'.live => Transitions(co.status, co'.status)
<1>1. /\ co \in [live : BOOLEAN, status : Status] /\ co.status \in Status
      /\ now \in Nat /\ co.status.conditions \in [CondTypes -> Condition]
      /\ \A c \in CondTypes : co.status.conditions[c].since \in Nat
  <2>1. co \in [live : BOOLEAN, status : Status] /\ co.status \in Status /\ now \in Nat
    BY DEF TypeOK
  <2>. QED
    BY <2>1 DEF Status, Condition
<1>2. CASE \E b \in BOOLEAN : co' = [live |-> b, status |-> NoStatus] /\ ~(b /\ co.live)
  BY <1>1, <1>2 DEF NoStatus
<1>3. CASE co' = [co EXCEPT !.status.foreign = TRUE]
  <2>1. /\ co'.status.conditions = co.status.conditions
        /\ co'.status.version = co.status.version
    BY <1>1, <1>3 DEF Status
  <2>. QED
    BY <1>1, <2>1 DEF Transitions
<1>4. CASE /\ co.status.conditions["Degraded"].status = "False"
           /\ co' = [co EXCEPT !.status.conditions["Degraded"] =
                        [status |-> "True", note |-> "error", since |-> now]]
  <2>1. /\ co'.status.version = co.status.version
        /\ co'.status.conditions =
              [co.status.conditions EXCEPT !["Degraded"] =
                  [status |-> "True", note |-> "error", since |-> now]]
    BY <1>1, <1>4 DEF Status
  <2>2. ASSUME NEW c \in CondTypes
        PROVE  \/ co'.status.conditions[c] = co.status.conditions[c]
               \/ /\ co'.status.conditions[c].since = now
                  /\ co'.status.conditions[c].status # co.status.conditions[c].status
    BY <1>1, <1>4, <2>1
  <2>. QED
    BY <1>1, <2>1, <2>2 DEF Transitions
<1>. QED
  BY <1>2, <1>3, <1>4 DEF ChangeClusterOperator

\* The transition times stay right: a write that is under way carries times
\* for the status it will replace, and is refused once that has changed.
LEMMA TimesStep == TypeOK /\ TimesKept /\ [Next]_vars => TimesKept'
<1>. SUFFICES ASSUME TypeOK, TimesKept, [Next]_vars PROVE TimesKept'
  OBVIOUS
<1>1. /\ now \in Nat /\ now' \in Nat /\ now' >= now
      /\ co.status \in Status /\ NoStatus \in Status /\ required \in Status
      /\ \A c \in CondTypes : /\ co.status.conditions[c].since \in Nat
                              /\ required.conditions[c].since \in Nat
  <2>1. now \in Nat /\ co.status \in Status /\ NoStatus \in Status /\ required \in Status
    BY ConstantsTyped DEF TypeOK
  <2>2. now' = now \/ now' = now + 1
    BY DEF Next, Reporter, Rollout, Start, DeliverVPA, DeliverDeployment, GetVPA,
           GetDeployment, ReadClusterOperator, CreateClusterOperator, UpdateStatus, Poll,
           CheckFails, ApplyFails, ReplyLost, RollOut, ObserveSpec, ReplacePods, Collect,
           PodFails, ChangeVPA, ChangeClusterOperator, Become, Crash, Tick, Bystand, vars
  <2>. QED
    BY <2>1, <2>2 DEF Status, Condition
<1>2. \A c \in CondTypes : NoStatus.conditions[c].since = 0
  BY DEF NoStatus
<1>3. ASSUME NEW s \in Status, Compare(s), co'.status = s, UNCHANGED now,
             \A c \in CondTypes : s.conditions[c].since <= now
      PROVE  TimesKept'
  <2>1. required' = ApplyStatus(s)
    BY <1>3 DEF Compare
  <2>. QED
    BY <1>3, <2>1, ApplyStatusTimes DEF TimesKept
<1>4. CASE ReadClusterOperator
  <2>1. CASE Compare(co.status)
    BY <1>1, <1>3, <1>4, <2>1 DEF ReadClusterOperator, TimesKept
  <2>2. CASE pc' = "create" /\ UNCHANGED <<required, outdated>>
    BY <1>4, <2>2 DEF ReadClusterOperator, TimesKept
  <2>. QED
    BY <1>4, <2>1, <2>2 DEF ReadClusterOperator
<1>5. CASE CreateClusterOperator
  <2>1. CASE co' = [live |-> TRUE, status |-> NoStatus] /\ Compare(NoStatus)
    <3>1. co'.status = NoStatus /\ now' = now
      BY <1>5, <2>1 DEF CreateClusterOperator
    <3>2. \A c \in CondTypes : NoStatus.conditions[c].since <= now
      BY <1>1, <1>2
    <3>. QED
      BY <1>1, <1>3, <2>1, <3>1, <3>2
  <2>2. CASE pc' = "down" /\ UNCHANGED <<co, required, outdated>>
    BY <1>5, <2>2 DEF CreateClusterOperator, TimesKept
  <2>. QED
    BY <1>5, <2>1, <2>2 DEF CreateClusterOperator
<1>6. CASE UpdateStatus
  <2>1. pc' # "write" /\ required' = NoStatus /\ now' = now
    BY <1>6 DEF UpdateStatus, Finish
  <2>2. co'.status \in {required, co.status}
    BY <1>6 DEF UpdateStatus, TypeOK
  <2>. QED
    BY <1>1, <1>2, <2>1, <2>2 DEF TimesKept
<1>9. CASE ReplyLost
  <2>1. pc' # "write" /\ required' = NoStatus /\ now' = now
    BY <1>9 DEF ReplyLost
  <2>2. co'.status \in {required, co.status, NoStatus}
    BY <1>9 DEF ReplyLost, TypeOK
  <2>. QED
    BY <1>1, <1>2, <2>1, <2>2 DEF TimesKept
<1>7. CASE ChangeClusterOperator
  <2>1. stale' = TRUE /\ UNCHANGED <<required, now>>
    BY <1>7 DEF ChangeClusterOperator, process
  <2>. QED
    BY <1>7, <2>1, OthersTimes DEF TimesKept
<1>8. CASE /\ UNCHANGED co
           /\ \/ required' = NoStatus /\ pc' # "write"
              \/ required' = required /\ pc' # "write"
              \/ UNCHANGED <<required, pc, stale>>
  BY <1>1, <1>2, <1>8 DEF TimesKept
<1>. QED
  BY <1>4, <1>5, <1>6, <1>7, <1>8, <1>9
     DEF Next, Reporter, Rollout, Start, DeliverVPA, DeliverDeployment, GetVPA,
         GetDeployment, Poll, CheckFails, ApplyFails, RollOut, ObserveSpec, ReplacePods,
         Collect, PodFails, ChangeVPA, Become, Crash, Tick, Bystand, process, vars

\* Every step keeps the inductive invariant.
LEMMA InvStep == IInv /\ [Next]_vars => IInv'
<1>. SUFFICES ASSUME IInv, [Next]_vars PROVE IInv'
  OBVIOUS
<1>. DEFINE Safe == /\ StatusTruthful' /\ ShownKept' /\ CachesTruthful'
                    /\ ReportTruthful' /\ WriteCurrent'
<1>1. TypeOK'
  BY TypeStep DEF IInv
<1>2. SUFFICES Safe
  BY <1>1, TimesStep DEF IInv
<1>3. ASSUME UNCHANGED <<vpa, dep, version>> PROVE Running(dep)' = Running(dep)
  BY <1>3 DEF Running
<1>4. CASE UNCHANGED vars \/ Tick
  BY <1>3, <1>4 DEF vars, Tick, cluster, caches, process, IInv, StatusTruthful,
                    ShownKept, CachesTruthful, ReportTruthful, WriteCurrent
<1>5. CASE Start
  <2>1. /\ vpaCache' = vpa /\ depCache' = dep[Recommender] /\ pc' = "vpa"
        /\ shown' = IF vpa THEN Running(dep) ELSE Operands
        /\ UNCHANGED <<vpa, dep, version>>
    BY <1>5 DEF Start, cluster
  <2>2. ShownKept'
    BY <1>3, <2>1 DEF ShownKept
  <2>3. CachesTruthful'
    BY <2>1 DEF CachesTruthful, IInv, StatusTruthful, Running
  <2>. QED
    BY <2>1, <2>2, <2>3 DEF IInv, StatusTruthful, ReportTruthful, WriteCurrent
<1>6. CASE DeliverVPA
  <2>1. CachesTruthful'
    BY <1>6 DEF DeliverVPA, process, IInv, CachesTruthful, ShownKept
  <2>. QED
    BY <1>3, <1>6, <2>1 DEF DeliverVPA, cluster, process, IInv, StatusTruthful,
                            ShownKept, ReportTruthful, WriteCurrent
<1>7. CASE DeliverDeployment
  <2>1. CachesTruthful'
    BY <1>7 DEF DeliverDeployment, cluster, process, IInv, CachesTruthful, ShownKept,
                StatusTruthful, Running
  <2>. QED
    BY <1>3, <1>7, <2>1 DEF DeliverDeployment, cluster, process, IInv, StatusTruthful,
                            ShownKept, ReportTruthful, WriteCurrent
<1>8. CASE GetVPA \/ GetDeployment \/ Poll \/ CheckFails \/ ApplyFails
  <2>1. /\ UNCHANGED <<vpa, dep, vpaCache, depCache, version, shown>>
        /\ pc \in Polling
    BY <1>8 DEF GetVPA, GetDeployment, Poll, CheckFails, ApplyFails, Bystand,
                cluster, caches, Polling
  <2>2. StatusTruthful' /\ ShownKept' /\ CachesTruthful'
    BY <1>3, <2>1 DEF IInv, StatusTruthful, ShownKept, CachesTruthful, Polling
  <2>3. ReportTruthful' /\ WriteCurrent'
    BY <1>8 DEF GetVPA, GetDeployment, Poll, CheckFails, ApplyFails, Bystand, cluster,
                caches, IInv, CachesTruthful, ReportTruthful, WriteCurrent,
                ReleaseVersionMatches, DeploymentUpdated
  <2>. QED
    BY <2>2, <2>3
<1>9. CASE ReadClusterOperator
  <2>1. /\ UNCHANGED <<vpa, dep, vpaCache, depCache, version, shown, co, report>>
        /\ pc = "read"
    BY <1>9 DEF ReadClusterOperator, cluster, caches
  <2>2. StatusTruthful' /\ ShownKept' /\ CachesTruthful' /\ ReportTruthful'
    BY <1>3, <2>1 DEF IInv, StatusTruthful, ShownKept, CachesTruthful, ReportTruthful
  <2>3. WriteCurrent'
    <3>. SUFFICES ASSUME pc' = "write" PROVE WriteCurrent'
      BY DEF WriteCurrent
    <3>1. co.live /\ Compare(co.status) /\ co.status \in Status
      BY <1>9 DEF ReadClusterOperator, IInv, TypeOK
    <3>. QED
      BY <2>1, <3>1, CompareKeeps DEF IInv, WriteCurrent
  <2>. QED
    BY <2>2, <2>3
<1>10. CASE CreateClusterOperator
  <2>1. /\ UNCHANGED <<vpa, dep, vpaCache, depCache, version, shown, report>>
        /\ pc = "create"
    BY <1>10 DEF CreateClusterOperator, cluster, caches
  <2>2. StatusTruthful' /\ ShownKept' /\ CachesTruthful' /\ ReportTruthful'
    BY <1>3, <2>1 DEF IInv, StatusTruthful, ShownKept, CachesTruthful, ReportTruthful
  <2>3. WriteCurrent'
    <3>. SUFFICES ASSUME pc' = "write" PROVE WriteCurrent'
      BY DEF WriteCurrent
    <3>1. co' = [live |-> TRUE, status |-> NoStatus] /\ Compare(NoStatus)
      BY <1>10 DEF CreateClusterOperator
    <3>2. co'.live /\ co'.status = NoStatus
      BY <3>1
    <3>. QED
      BY <2>1, <3>1, <3>2, CompareKeeps, ConstantsTyped DEF IInv, WriteCurrent
  <2>. QED
    BY <2>2, <2>3
<1>11. CASE UpdateStatus \/ ReplyLost
  <2>1. /\ UNCHANGED <<vpa, dep, vpaCache, depCache, version, shown>>
        /\ pc # "down" /\ pc' \in {"returned", "wait", "down"}
    BY <1>11 DEF UpdateStatus, ReplyLost, Finish, cluster, caches
  <2>. QED
    BY <1>3, <2>1 DEF IInv, StatusTruthful, ShownKept, CachesTruthful, ReportTruthful,
                      WriteCurrent
<1>12. ASSUME NEW o \in Operands, Rollout(o) \/ PodFails(o) PROVE Safe
  <2>1. vpa \in BOOLEAN /\ \E d : Become(vpa, d)
    BY <1>12, DeploymentsTyped DEF IInv, TypeOK
  <2>. QED
    BY <1>12, <2>1, BecomeKeeps, RolloutTruthful
<1>13. CASE ChangeVPA
  <2>1. (~vpa) \in BOOLEAN /\ Become(~vpa, dep)
    BY <1>13 DEF ChangeVPA
  <2>2. StatusTruthful'
    BY <2>1 DEF Become, IInv, StatusTruthful
  <2>. QED
    BY <2>1, <2>2, BecomeKeeps
<1>14. CASE ChangeClusterOperator
  BY <1>3, <1>14 DEF ChangeClusterOperator, cluster, caches, process, IInv, StatusTruthful,
                     ShownKept, CachesTruthful, ReportTruthful, WriteCurrent
<1>15. CASE Crash
  BY <1>15 DEF Crash, cluster, caches, IInv, StatusTruthful,
               ShownKept, CachesTruthful, ReportTruthful, WriteCurrent
<1>. QED
  BY <1>4, <1>5, <1>6, <1>7, <1>8, <1>9, <1>10, <1>11, <1>12, <1>13, <1>14, <1>15
     DEF Next, Reporter

\* IInv is an invariant: what the caches, the report and the pending write say
\* of the recommender was true at some time since the process started.
THEOREM Inductive == Spec => []IInv
BY InvInit, InvStep, PTL DEF Spec

\* NeverEarly for every number of operands, releases, failures and restarts: a
\* new version is announced only after the recommender ran it.
THEOREM NotEarly == Spec => NeverEarly
<1>1. IInv /\ [Next]_vars =>
         [Announces => co'.status.version = version /\ Recommender \in shown]_vars
  <2>. SUFFICES ASSUME IInv, Next, Announces
                PROVE  co'.status.version = version /\ Recommender \in shown
    BY DEF Announces
  <2>1. co.status \in Status /\ co \in [live : BOOLEAN, status : Status]
    BY DEF IInv, TypeOK
  <2>2. CASE UpdateStatus
    <3>1. CASE stale
      BY <2>2, <3>1 DEF UpdateStatus, Announces
    <3>2. CASE ~stale
      <4>1. co'.status = required /\ pc = "write"
        BY <2>1, <2>2, <3>2 DEF UpdateStatus
      <4>. QED
        BY <3>2, <4>1 DEF IInv, WriteCurrent, ReportTruthful, Announces
    <3>. QED
      BY <3>1, <3>2
  <2>3. CASE co'.status.version \in {co.status.version, NoVersion}
    BY <2>3 DEF Announces
  <2>4. CASE CreateClusterOperator
    BY <2>1, <2>4 DEF CreateClusterOperator, Announces, NoStatus
  <2>5. CASE ChangeClusterOperator
    BY <2>3, <2>5, OthersTimes DEF IInv, TimesKept
  <2>7. CASE ReplyLost
    <3>1. CASE co' = [live |-> TRUE, status |-> NoStatus]
      BY <2>3, <3>1 DEF NoStatus
    <3>2. CASE pc = "write" /\ ~stale /\ co' = [co EXCEPT !.status = required]
      <4>1. co'.status = required
        BY <2>1, <3>2
      <4>. QED
        BY <3>2, <4>1 DEF IInv, WriteCurrent, ReportTruthful, Announces
    <3>. QED
      BY <2>7, <3>1, <3>2 DEF ReplyLost
  <2>6. CASE UNCHANGED co
    BY <2>6 DEF Announces
  <2>. QED
    BY <2>2, <2>4, <2>5, <2>6, <2>7, WhoWrites
<1>. QED
  BY <1>1, Inductive, PTL DEF Spec, NeverEarly

\* TransitionTimes for every clock, failure, conflict and other writer: the
\* reporter's write is accepted only while the status it was made for is there.
THEOREM TimesRight == Spec => TransitionTimes
<1>1. IInv /\ [Next]_vars =>
         [co.live /\ co'.live => Transitions(co.status, co'.status)]_vars
  <2>. SUFFICES ASSUME IInv, Next, co.live, co'.live
                PROVE  Transitions(co.status, co'.status)
    OBVIOUS
  <2>1. CASE UNCHANGED co
    <3>1. \A c \in CondTypes : co.status.conditions[c].since \in Nat
      BY DEF IInv, TypeOK, Status, Condition
    <3>. QED
      BY <2>1, <3>1 DEF Transitions
  <2>2. CASE UpdateStatus
    <3>1. CASE stale
      BY <2>1, <2>2, <3>1 DEF UpdateStatus
    <3>2. CASE ~stale
      <4>1. co'.status = required /\ pc = "write"
        BY <2>2, <3>2 DEF UpdateStatus, IInv, TypeOK
      <4>. QED
        BY <3>2, <4>1 DEF IInv, TimesKept
    <3>. QED
      BY <3>1, <3>2
  <2>3. CASE CreateClusterOperator
    BY <2>1, <2>3 DEF CreateClusterOperator
  <2>4. CASE ChangeClusterOperator
    BY <2>4, OthersTimes DEF IInv, TimesKept
  <2>5. CASE ReplyLost
    <3>1. pc = "write" /\ ~stale /\ co' = [co EXCEPT !.status = required]
      BY <2>5 DEF ReplyLost
    <3>2. co'.status = required
      BY <3>1 DEF IInv, TypeOK
    <3>. QED
      BY <3>1, <3>2 DEF IInv, TimesKept
  <2>. QED
    BY <2>1, <2>2, <2>3, <2>4, <2>5, WhoWrites
<1>. QED
  BY <1>1, Inductive, PTL DEF Spec, TransitionTimes
=============================================================================
