------------------------- MODULE DefaultController --------------------------
(***************************************************************************)
(* ensureVPAController: the goroutine SetupWithManager starts in every     *)
(* operator process to create the default resource once.  It waits for the *)
(* caches, looks for an annotation on the namespace, creates the resource  *)
(* if the cache shows none, and annotates the namespace.  It runs in every *)
(* process, leader or not, so two of them overlap during a rollout; it     *)
(* never retries, so an error leaves the rest to the next process.         *)
(***************************************************************************)
EXTENDS Naturals

CONSTANTS
    Instances,   \* operator processes that may run at the same time
    MaxFails,    \* bound: calls that fail, time out or lose their reply
    MaxCrashes,  \* bound: processes that die
    MaxEnv       \* bound: interventions of users

ASSUME BoundsAssumption ==
    MaxFails \in Nat /\ MaxCrashes \in Nat /\ MaxEnv \in Nat

VARIABLES
    annotated,  \* the namespace carries DefaultVPAControllerAnnotation
    vpa,        \* the resource: "none", "default" or "user" (who made it)
    pc,         \* where each process's goroutine is
    vpaCache,   \* each process's cached copy of the resource
    late,       \* the process was started after the annotation was set
    created,    \* how many default resources were created
    existed,    \* a resource has existed
    fails, crashes, env

history == <<created, existed>>
vars == <<annotated, vpa, pc, vpaCache, late, history, fails, crashes, env>>

Resources == {"none", "default", "user"}

Running == {"waiting", "getNamespace", "getVPA", "create", "patch"}

\* The goroutine returned nil, returned an error, or the process is gone.
Ended == {"done", "failed", "down"}

TypeOK ==
    /\ annotated \in BOOLEAN /\ vpa \in Resources
    /\ pc \in [Instances -> Running \union Ended]
    /\ vpaCache \in [Instances -> Resources]
    /\ late \in [Instances -> BOOLEAN]
    /\ created \in Nat /\ existed \in BOOLEAN
    /\ fails \in 0..MaxFails /\ crashes \in 0..MaxCrashes /\ env \in 0..MaxEnv

Init ==
    /\ annotated = FALSE /\ vpa = "none"
    /\ pc = [i \in Instances |-> "down"]
    /\ vpaCache = [i \in Instances |-> "none"]
    /\ late = [i \in Instances |-> FALSE]
    /\ created = 0 /\ existed = FALSE
    /\ fails = 0 /\ crashes = 0 /\ env = 0

Goto(i, label) == pc' = [pc EXCEPT ![i] = label]

-----------------------------------------------------------------------------
(* The process and its goroutine.                                          *)

Start(i) ==
    /\ pc[i] = "down" /\ Goto(i, "waiting")
    /\ late' = [late EXCEPT ![i] = annotated]
    /\ UNCHANGED <<annotated, vpa, vpaCache, history, fails, crashes, env>>

\* WaitForCacheSync: the resource has been listed.
CacheSynced(i) ==
    /\ pc[i] = "waiting" /\ Goto(i, "getNamespace")
    /\ vpaCache' = [vpaCache EXCEPT ![i] = vpa]
    /\ UNCHANGED <<annotated, vpa, late, history, fails, crashes, env>>

\* The informer delivers what happened to the resource since.
SyncVPA(i) ==
    /\ pc[i] \in Running \ {"waiting"} /\ vpaCache[i] # vpa
    /\ vpaCache' = [vpaCache EXCEPT ![i] = vpa]
    /\ UNCHANGED <<annotated, vpa, pc, late, history, fails, crashes, env>>

\* Mutant: the annotation is not looked at.
GetNamespaceIgnores(i) ==
    /\ pc[i] = "getNamespace" /\ Goto(i, "getVPA")
    /\ UNCHANGED <<annotated, vpa, vpaCache, late, history, fails, crashes, env>>

\* This first read of a Namespace makes the cache list it, so it is current.
GetNamespace(i) ==
    /\ pc[i] = "getNamespace"
    /\ Goto(i, IF annotated THEN "done" ELSE "getVPA")
    /\ UNCHANGED <<annotated, vpa, vpaCache, late, history, fails, crashes, env>>

\* Mutant: the namespace is annotated although nothing was created.
GetVPAMarks(i) ==
    /\ pc[i] = "getVPA" /\ Goto(i, "patch")
    /\ UNCHANGED <<annotated, vpa, vpaCache, late, history, fails, crashes, env>>

\* Mutant: an existing resource ends the goroutine without the annotation.
GetVPADone(i) ==
    /\ pc[i] = "getVPA"
    /\ Goto(i, IF vpaCache[i] = "none" THEN "create" ELSE "done")
    /\ UNCHANGED <<annotated, vpa, vpaCache, late, history, fails, crashes, env>>

\* r.Get of the resource, from the cache.
GetVPA(i) ==
    /\ pc[i] = "getVPA"
    /\ Goto(i, IF vpaCache[i] = "none" THEN "create" ELSE "patch")
    /\ UNCHANGED <<annotated, vpa, vpaCache, late, history, fails, crashes, env>>

\* Create the default resource; one that already exists is fine.  When the
\* reply is lost the goroutine returns the error without annotating.
CreateDefault(i) ==
    /\ pc[i] = "create"
    /\ IF vpa = "none"
       THEN /\ vpa' = "default" /\ created' = created + 1 /\ existed' = TRUE
            /\ \/ Goto(i, "patch") /\ UNCHANGED fails
               \/ fails < MaxFails /\ fails' = fails + 1 /\ Goto(i, "failed")
       ELSE Goto(i, "patch") /\ UNCHANGED <<vpa, history, fails>>
    /\ UNCHANGED <<annotated, vpaCache, late, crashes, env>>

\* A merge patch that sets the annotation and never conflicts.
PatchNamespace(i) ==
    /\ pc[i] = "patch" /\ Goto(i, "done")
    /\ annotated' = TRUE
    /\ UNCHANGED <<vpa, vpaCache, late, history, fails, crashes, env>>

\* The cache does not sync within five minutes, or a call fails: the error
\* is logged and the goroutine ends.
GiveUp(i) ==
    /\ pc[i] \in Running /\ fails < MaxFails
    /\ fails' = fails + 1 /\ Goto(i, "failed")
    /\ UNCHANGED <<annotated, vpa, vpaCache, late, history, crashes, env>>

Crash(i) ==
    /\ pc[i] # "down" /\ crashes < MaxCrashes
    /\ crashes' = crashes + 1 /\ Goto(i, "down")
    /\ UNCHANGED <<annotated, vpa, vpaCache, late, history, fails, env>>

-----------------------------------------------------------------------------
(* Users.                                                                  *)

UserCreates ==
    /\ vpa = "none" /\ env < MaxEnv
    /\ vpa' = "user" /\ existed' = TRUE /\ env' = env + 1
    /\ UNCHANGED <<annotated, pc, vpaCache, late, created, fails, crashes>>

UserDeletes ==
    /\ vpa # "none" /\ env < MaxEnv
    /\ vpa' = "none" /\ env' = env + 1
    /\ UNCHANGED <<annotated, pc, vpaCache, late, history, fails, crashes>>

Goroutine(i) == \/ CacheSynced(i) \/ GetNamespace(i) \/ GetVPA(i)
                \/ CreateDefault(i) \/ PatchNamespace(i)

Next == \/ \E i \in Instances : \/ Start(i) \/ Goroutine(i) \/ SyncVPA(i)
                                \/ GiveUp(i) \/ Crash(i)
        \/ UserCreates \/ UserDeletes

Spec == Init /\ [][Next]_vars

\* Crashed pods are restarted and the goroutine is scheduled.
Fairness == \A i \in Instances : WF_vars(Start(i)) /\ WF_vars(Goroutine(i))

FairSpec == Spec /\ Fairness

-----------------------------------------------------------------------------
(* Correctness.                                                            *)

\* Once the annotation is set and every process that was already running then
\* has ended or finished its goroutine, no default resource is created any
\* more: what a user deletes stays deleted across restarts and upgrades.
DeletionFinal ==
    [][annotated /\ (\A i \in Instances : late[i] \/ pc[i] \in Ended)
          => created' = created]_vars

\* The namespace is annotated only once there has been a resource: a cluster
\* is never left without one and marked as if it had had one.
MarkedAfterExisting == annotated => existed

\* The annotation is set in the end, also if processes die or lose a call's
\* effect between creating and annotating, or give up on the cache: whatever
\* one of them left undone, another or the next one does.  Only when every
\* process that is left has itself given up does nobody try any more.
EventuallyMarked == <>[](annotated \/ \A i \in Instances : pc[i] = "failed")

\* "Annotate namespace to prevent another default controller from being
\* created": at most one default resource is ever created.
SingleDefault == created <= 1
-----------------------------------------------------------------------------
(* The inductive invariant behind the safety properties.                   *)

\* A process that starts after the annotation stops at its namespace read.
AnnotationRespected ==
    \A i \in Instances :
        late[i] => annotated /\ pc[i] \notin {"getVPA", "create", "patch"}

\* Whoever sees a resource, or is about to annotate, comes after one existed.
ExistenceWitnessed ==
    /\ annotated \/ vpa # "none" => existed
    /\ \A i \in Instances : vpaCache[i] # "none" \/ pc[i] = "patch" => existed

IInv == TypeOK /\ AnnotationRespected /\ ExistenceWitnessed
=============================================================================
