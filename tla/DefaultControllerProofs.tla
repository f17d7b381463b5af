----------------------- MODULE DefaultControllerProofs -----------------------
(* Proofs about DefaultController, for any number of overlapping processes *)
(* and every bound.                                                        *)
EXTENDS DefaultController, TLAPS

USE BoundsAssumption

\* Before the first process starts nothing is annotated and nothing existed.
LEMMA InvInit == Init => IInv
<1>. SUFFICES ASSUME Init PROVE IInv
  OBVIOUS
<1>1. fails \in 0..MaxFails /\ crashes \in 0..MaxCrashes /\ env \in 0..MaxEnv
  BY DEF Init
<1>2. TypeOK
  BY <1>1 DEF Init, TypeOK, Resources, Running, Ended
<1>3. AnnotationRespected /\ ExistenceWitnessed
  BY DEF Init, AnnotationRespected, ExistenceWitnessed
<1>. QED
  BY <1>2, <1>3 DEF IInv

\* Each step of a goroutine, of its process, or of a user keeps the types.
LEMMA TypeStep == TypeOK /\ [Next]_vars => TypeOK'
<1>. SUFFICES ASSUME TypeOK, [Next]_vars PROVE TypeOK'
  OBVIOUS
<1>. USE DEF history, Goto
<1>1. ASSUME NEW i \in Instances, Start(i) PROVE TypeOK'
  BY <1>1 DEF Start, TypeOK, Running, Ended
<1>2. ASSUME NEW i \in Instances, CacheSynced(i) \/ SyncVPA(i) PROVE TypeOK'
  BY <1>2 DEF CacheSynced, SyncVPA, TypeOK, Running, Ended
<1>3. ASSUME NEW i \in Instances, GetNamespace(i) \/ GetVPA(i) PROVE TypeOK'
  BY <1>3 DEF GetNamespace, GetVPA, TypeOK, Running, Ended
<1>4. ASSUME NEW i \in Instances, CreateDefault(i) PROVE TypeOK'
  <2>1. pc' \in [Instances -> Running \union Ended]
    BY <1>4 DEF CreateDefault, TypeOK, Running, Ended
  <2>2. fails' = fails \/ (fails < MaxFails /\ fails' = fails + 1)
    BY <1>4 DEF CreateDefault
  <2>3. fails' \in 0..MaxFails
    BY <2>2 DEF TypeOK
  <2>4. vpa' \in Resources /\ created' \in Nat /\ existed' \in BOOLEAN
    <3>1. CASE vpa = "none"
      BY <1>4, <3>1 DEF CreateDefault, TypeOK, Resources
    <3>2. CASE vpa # "none"
      BY <1>4, <3>2 DEF CreateDefault, TypeOK
    <3>. QED
      BY <3>1, <3>2
  <2>. QED
    BY <1>4, <2>1, <2>3, <2>4 DEF CreateDefault, TypeOK
<1>5. ASSUME NEW i \in Instances, PatchNamespace(i) PROVE TypeOK'
  BY <1>5 DEF PatchNamespace, TypeOK, Running, Ended
<1>6. ASSUME NEW i \in Instances, GiveUp(i) \/ Crash(i) PROVE TypeOK'
  <2>1. fails' \in 0..MaxFails /\ crashes' \in 0..MaxCrashes
    BY <1>6 DEF GiveUp, Crash, TypeOK
  <2>. QED
    BY <1>6, <2>1 DEF GiveUp, Crash, TypeOK, Running, Ended
<1>7. CASE UserCreates \/ UserDeletes
  <2>1. env' \in 0..MaxEnv
    BY <1>7 DEF UserCreates, UserDeletes, TypeOK
  <2>. QED
    BY <1>7, <2>1 DEF UserCreates, UserDeletes, TypeOK, Resources
<1>8. CASE UNCHANGED vars
  BY <1>8 DEF vars, TypeOK
<1>. QED
  BY <1>1, <1>2, <1>3, <1>4, <1>5, <1>6, <1>7, <1>8 DEF Next, Goroutine

\* A process started after the annotation never passes its namespace read,
\* because the annotation is never removed.
LEMMA AnnotationStep == IInv /\ [Next]_vars => AnnotationRespected'
<1>. SUFFICES ASSUME IInv, [Next]_vars PROVE AnnotationRespected'
  OBVIOUS
<1>. USE DEF history, Goto, IInv, TypeOK, AnnotationRespected
<1>1. ASSUME NEW i \in Instances, Start(i) PROVE AnnotationRespected'
  BY <1>1 DEF Start
<1>2. ASSUME NEW i \in Instances, Goroutine(i) \/ SyncVPA(i)
      PROVE  AnnotationRespected'
  BY <1>2 DEF Goroutine, CacheSynced, SyncVPA, GetNamespace, GetVPA,
              CreateDefault, PatchNamespace
<1>3. ASSUME NEW i \in Instances, GiveUp(i) \/ Crash(i)
      PROVE  AnnotationRespected'
  BY <1>3 DEF GiveUp, Crash
<1>4. CASE UserCreates \/ UserDeletes \/ UNCHANGED vars
  BY <1>4 DEF UserCreates, UserDeletes, vars
<1>. QED
  BY <1>1, <1>2, <1>3, <1>4 DEF Next

\* The annotation, a cached resource and the way to the patch all follow an
\* existing resource.
LEMMA ExistenceStep == IInv /\ [Next]_vars => ExistenceWitnessed'
<1>. SUFFICES ASSUME IInv, [Next]_vars PROVE ExistenceWitnessed'
  OBVIOUS
<1>. USE DEF history, Goto, IInv, TypeOK, ExistenceWitnessed
<1>1. ASSUME NEW i \in Instances, Start(i) \/ GiveUp(i) \/ Crash(i)
      PROVE  ExistenceWitnessed'
  BY <1>1 DEF Start, GiveUp, Crash
<1>2. ASSUME NEW i \in Instances, CacheSynced(i) \/ SyncVPA(i)
      PROVE  ExistenceWitnessed'
  BY <1>2 DEF CacheSynced, SyncVPA
<1>3. ASSUME NEW i \in Instances, GetNamespace(i) \/ GetVPA(i)
      PROVE  ExistenceWitnessed'
  BY <1>3 DEF GetNamespace, GetVPA
<1>4. ASSUME NEW i \in Instances, CreateDefault(i) PROVE ExistenceWitnessed'
  BY <1>4 DEF CreateDefault
<1>5. ASSUME NEW i \in Instances, PatchNamespace(i) PROVE ExistenceWitnessed'
  BY <1>5 DEF PatchNamespace
<1>6. CASE UserCreates \/ UserDeletes \/ UNCHANGED vars
  BY <1>6 DEF UserCreates, UserDeletes, vars
<1>. QED
  BY <1>1, <1>2, <1>3, <1>4, <1>5, <1>6 DEF Next, Goroutine

\* The invariant of ensureVPAController holds in every behaviour.
THEOREM Inductive == Spec => []IInv
<1>1. IInv /\ [Next]_vars => IInv'
  BY TypeStep, AnnotationStep, ExistenceStep DEF IInv
<1>. QED
  BY <1>1, InvInit, PTL DEF Spec

\* ensureVPAController annotates the namespace only after a resource existed.
THEOREM MarkedAfter == Spec => []MarkedAfterExisting
<1>1. IInv => MarkedAfterExisting
  BY DEF IInv, ExistenceWitnessed, MarkedAfterExisting
<1>. QED
  BY <1>1, Inductive, PTL

\* Processes that start once the annotation is set create nothing.
THEOREM DeletionIsFinal == Spec => DeletionFinal
<1>. DEFINE Final ==
        annotated /\ (\A i \in Instances : late[i] \/ pc[i] \in Ended)
           => created' = created
<1>1. ASSUME IInv, [Next]_vars PROVE [Final]_vars
  <2>1. ASSUME NEW i \in Instances, CreateDefault(i) PROVE Final
    BY <1>1, <2>1 DEF CreateDefault, IInv, AnnotationRespected, Ended
  <2>. QED
    BY <1>1, <2>1 DEF Next, Start, Goroutine, CacheSynced, SyncVPA, GetNamespace,
                      GetVPA, PatchNamespace, GiveUp, Crash, UserCreates,
                      UserDeletes, history
<1>. QED
  BY <1>1, Inductive, PTL DEF Spec, DeletionFinal
=============================================================================
