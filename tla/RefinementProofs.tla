-------------------------- MODULE RefinementProofs --------------------------
(* Reconciler implements DesiredState, for every value of the constants:   *)
(* initial states map to initial states, every step to a step or stutter.  *)
EXTENDS ReconcilerProofs

\* A step of the reconciler or its environment leaves the watched objects
\* alone, or changes one of them, which some event then reports.
LEMMA OneObject ==
    ASSUME IInv, [Next]_vars
    PROVE  \/ \A o \in Watched : store'[o] = store[o]
           \/ \E o \in Watched :
                 /\ store'[o] # store[o] /\ pending'[o] # "none"
                 /\ \A p \in Watched \ {o} : store'[p] = store[p]
                 /\ store[o].live /\ store'[o].live =>
                       /\ store'[o].owner = store[o].owner
                       /\ store'[o].extra >= store[o].extra
                 /\ UNCHANGED <<vpa, cfg>>
<1>. DEFINE Goal == \/ \A o \in Watched : store'[o] = store[o]
                    \/ \E o \in Watched :
                          /\ store'[o] # store[o] /\ pending'[o] # "none"
                          /\ \A p \in Watched \ {o} : store'[p] = store[p]
                          /\ store[o].live /\ store'[o].live =>
                                /\ store'[o].owner = store[o].owner
                                /\ store'[o].extra >= store[o].extra
                          /\ UNCHANGED <<vpa, cfg>>
<1>1. StoreTyped /\ Watched \subseteq Objects
  BY DEF IInv, TypeOK, Watched
<1>2. \A o \in Objects : store[o].extra \in Nat
  BY <1>1 DEF StoreTyped, Slots
<1>3. ASSUME NEW o \in Objects, NEW slot \in Slots, Write(o, slot),
             o \in Watched /\ store[o].live /\ slot.live =>
                slot.owner = store[o].owner /\ slot.extra >= store[o].extra,
             UNCHANGED <<vpa, cfg>>
      PROVE  Goal
  <2>1. /\ store'[o] = slot
        /\ \A p \in Objects : p # o => store'[p] = store[p]
        /\ slot # store[o] => pending'[o] # "none"
    BY <1>1, <1>3, WriteEffect
  <2>. QED
    BY <1>1, <1>3, <2>1
<1>4. CASE UNCHANGED store
  BY <1>4
<1>5. CASE CreateObject \/ PutObject \/ PutPolicy
  <2>1. Order[idx] \in Objects
    BY OrderFacts DEF IInv, TypeOK, WorkerTyped
  <2>2. UNCHANGED <<vpa, cfg>>
    BY <1>5 DEF CreateObject, PutObject, PutPolicy
  <2>3. CASE UNCHANGED <<store, pending, fails>>
    BY <2>3
  <2>4. ASSUME NEW slot \in Slots, Write(Order[idx], slot),
               Order[idx] \in Watched /\ store[Order[idx]].live =>
                  /\ slot.owner = store[Order[idx]].owner
                  /\ slot.extra = store[Order[idx]].extra
        PROVE  Goal
    <3>1. Order[idx] \in Watched /\ store[Order[idx]].live /\ slot.live =>
             /\ slot.owner = store[Order[idx]].owner
             /\ slot.extra >= store[Order[idx]].extra
      BY <1>2, <2>1, <2>4
    <3>. QED
      BY <1>3, <2>1, <2>2, <2>4, <3>1
  <2>. QED
    BY <1>5, <2>3, <2>4, OwnWrite
<1>6. ASSUME NEW o \in Objects,
             TouchObject(o) \/ EditObject(o) \/ DeleteObject(o) \/ Collect(o)
      PROVE  Goal
  <2>1. PICK slot \in Slots :
           /\ Disturb(o, slot)
           /\ slot.live => /\ slot.owner = store[o].owner
                           /\ slot.extra >= store[o].extra
    BY <1>6, OthersWrite DEF IInv
  <2>. QED
    BY <1>3, <2>1 DEF Disturb
<1>. QED
  BY <1>4, <1>5, <1>6
     DEF vars, clusterVars, Next, Operator, Start, Reconcile, GetObject,
         UpdateObject, CallFails, Informers, SyncVPA, SyncAPIServer, Resync,
         SyncObject, Environment, CreateVPA, EditVPA, DeleteVPA, SetVPA,
         ChangeAPIServer, Crash

\* When the wish changes, the objects do not, and the reconciler does not rest.
LEMMA WishUnsettles ==
    ASSUME IInv, [Next]_vars, Wanted' # Wanted
    PROVE  ~Settled' /\ UNCHANGED store
<1>1. ~(UNCHANGED <<vpa, cfg>>)
  BY DEF Wanted, Stored, Expected, PodSpec, Replicas
<1>2. CASE Start
  BY <1>2 DEF Start, clusterVars, Settled, Quiet
<1>3. CASE Reconcile
  <2>1. UNCHANGED <<vpa, store, vpaPending>>
    BY <1>3 DEF Reconcile, clusterVars, cacheVars
  <2>2. vpa.live
    BY <2>1 DEF Wanted
  <2>3. vpaPending \/ vpaCache.live
    BY <2>2 DEF IInv, CachesCurrent
  <2>4. vpaCache.live => pc' = "get" \/ queued'
    BY <1>3 DEF Reconcile
  <2>. QED
    BY <2>1, <2>3, <2>4 DEF Settled, Quiet
<1>4. CASE CreateVPA \/ EditVPA \/ DeleteVPA
  BY <1>4 DEF CreateVPA, EditVPA, DeleteVPA, SetVPA, Settled
<1>. QED
  BY <1>1, <1>2, <1>3, <1>4
     DEF vars, clusterVars, Next, Operator, GetObject, UpdateObject,
         CreateObject, PutObject, PutPolicy, CallFails, Informers, SyncVPA,
         SyncAPIServer, Resync, SyncObject, Environment, ChangeAPIServer,
         Crash, TouchObject, EditObject, DeleteObject, Collect, Disturb

\* At rest every watched object is the wanted one.
LEMMA RestIsRight ==
    ASSUME IInv, Settled, Wanted # NoContent
    PROVE  \A o \in Watched : Actual[o].live /\ Actual[o].content = Wanted[o]
<1>1. vpa.live
  BY DEF Wanted
<1>2. \A o \in Watched : Reconciled(o)
  BY <1>1 DEF IInv, Settled, Quiet, Covered, Remaining
<1>. QED
  BY <1>1, <1>2 DEF Reconciled, Wanted, Actual

\* Reconcile, its scheduling and its environment implement DesiredState: the
\* operator rests only on what is wanted, every change of the wish or of an
\* object ends its rest, and no object loses its owner or others' changes.
THEOREM Implements == Spec => ImplementsDesired
<1>1. Init => Desired!Init
  BY DEF Init, Desired!Init, Actual, Absent, Settled, Quiet, Watched
<1>2. ASSUME IInv, IInv', [Next]_vars
      PROVE  [Desired!Next]_(Desired!dvars)
  <2>1. Settled \in BOOLEAN /\ Settled' \in BOOLEAN
    BY DEF Settled
  <2>2. CASE Wanted' # Wanted
    <3>1. Actual' = Actual
      BY <1>2, <2>2, WishUnsettles DEF Actual
    <3>2. Settled' = FALSE
      BY <1>2, <2>1, <2>2, WishUnsettles
    <3>. QED
      BY <2>2, <3>1, <3>2 DEF Desired!Next, Desired!Want
  <2>3. CASE Wanted' = Wanted /\ Actual' = Actual
    <3>1. CASE Settled' = Settled
      BY <2>3, <3>1 DEF Desired!dvars
    <3>2. CASE Settled /\ ~Settled'
      BY <2>1, <2>3, <3>2 DEF Desired!Next, Desired!Stir
    <3>3. CASE ~Settled /\ Settled'
      <4>1. (Wanted # NoContent =>
                \A o \in Watched : Actual[o].live /\ Actual[o].content = Wanted[o])'
        BY <1>2, <3>3, RestIsRight, PTL
      <4>. QED
        BY <2>1, <2>3, <3>3, <4>1 DEF Desired!Next, Desired!Settle
    <3>. QED
      BY <2>1, <3>1, <3>2, <3>3
  <2>4. CASE Wanted' = Wanted /\ Actual' # Actual
    <3>1. PICK o \in Watched :
             /\ store'[o] # store[o] /\ pending'[o] # "none"
             /\ \A p \in Watched \ {o} : store'[p] = store[p]
             /\ store[o].live /\ store'[o].live =>
                   /\ store'[o].owner = store[o].owner
                   /\ store'[o].extra >= store[o].extra
      BY <1>2, <2>4, OneObject DEF Actual
    <3>2. Settled' = FALSE
      BY <3>1 DEF Settled
    <3>3. \A p \in Watched : Actual[p] = store[p] /\ Actual'[p] = store'[p]
      BY DEF Actual
    <3>4. store'[o].live => store'[o].owner > 0
      BY <1>2 DEF IInv, UidsIssued, OwnerKept
    <3>5. Desired!Change(o)
      BY <2>4, <3>1, <3>2, <3>3, <3>4 DEF Desired!Change
    <3>. QED
      BY <3>5 DEF Desired!Next
  <2>. QED
    BY <2>2, <2>3, <2>4
<1>. QED
  BY <1>1, <1>2, Inductive, PTL DEF Spec, ImplementsDesired, Desired!Spec
=============================================================================
