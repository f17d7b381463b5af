---------------------------- MODULE OrphansProofs ---------------------------
(* Proofs about Orphans: an object that lost its owner is the only kind    *)
(* the reconciler can overlook, whatever is orphaned and when.             *)
EXTENDS Orphans, ReconcilerProofs

OrphansInv == OrphansSilent /\ OwnersOrOrphans /\ OthersCovered

-----------------------------------------------------------------------------
(* Deleting the resource and keeping its objects.                          *)

\* The objects of the resource lose their owner, with an event that reaches
\* the queue if they are watched; the others are left alone.
LEMMA OrphanEffect ==
    ASSUME TypeOK, vpa.uid > 0, OrphanVPA
    PROVE  \A o \in Objects :
              \/ store'[o] = store[o] /\ pending'[o] = pending[o]
              \/ /\ o \in orphaned' /\ store'[o].owner = 0
                 /\ store'[o] # store[o] /\ pending'[o] # "none"
                 /\ o \in Watched => pending'[o] = "enqueue"
<1>. SUFFICES ASSUME NEW o \in Objects, store'[o] # store[o]
              PROVE  /\ o \in orphaned' /\ store'[o].owner = 0 /\ pending'[o] # "none"
                     /\ o \in Watched => pending'[o] = "enqueue"
  BY DEF OrphanVPA
<1>1. store[o] \in Slots /\ pending[o] \in {"none", "silent", "enqueue"}
  BY DEF TypeOK, StoreTyped
<1>2. store[o].owner = vpa.uid /\ store'[o] = [store[o] EXCEPT !.owner = 0]
  BY DEF OrphanVPA
<1>3. store'[o].owner = 0
  BY <1>1, <1>2 DEF Slots
<1>4. o \in Watched => Enqueues(o, store[o], store'[o])
  BY <1>2 DEF Enqueues, TypeOK, ResourcesTyped, VPAs
<1>5. pending'[o] = IF Enqueues(o, store[o], store'[o]) THEN "enqueue"
                    ELSE IF pending[o] = "none" THEN "silent" ELSE pending[o]
  BY DEF OrphanVPA
<1>6. o \in orphaned'
  BY DEF OrphanVPA
<1>. QED
  BY <1>3, <1>4, <1>5, <1>6

\* It keeps the types ...
LEMMA OrphanTyped ==
    ASSUME TypeOK, OrphanVPA
    PROVE  TypeOK'
<1>1. \A o \in Objects :
         /\ store'[o] \in Slots /\ store'[o].content = store[o].content
         /\ pending'[o] \in {"none", "silent", "enqueue"}
  <2>. SUFFICES ASSUME NEW o \in Objects
                PROVE  /\ store'[o] \in Slots /\ store'[o].content = store[o].content
                       /\ pending'[o] \in {"none", "silent", "enqueue"}
    OBVIOUS
  <2>1. store[o] \in Slots /\ pending[o] \in {"none", "silent", "enqueue"}
    BY DEF TypeOK, StoreTyped
  <2>2. store'[o] = store[o] \/ store'[o] = [store[o] EXCEPT !.owner = 0]
    BY DEF OrphanVPA
  <2>3. store'[o] \in Slots /\ store'[o].content = store[o].content
    BY <2>1, <2>2 DEF Slots
  <2>4. pending'[o] \in {"none", "silent", "enqueue"}
    BY <2>1 DEF OrphanVPA
  <2>. QED
    BY <2>3, <2>4
<1>2. StoreTyped'
  <2>1. /\ store' = [o \in Objects |-> store'[o]]
        /\ pending' = [o \in Objects |-> pending'[o]]
    BY DEF OrphanVPA
  <2>. QED
    BY <1>1, <2>1 DEF StoreTyped, TypeOK
<1>3. vpa' \in VPAs /\ env' \in 0..MaxEnv
  <2>1. vpa.uid \in Nat
    BY DEF TypeOK, ResourcesTyped, VPAs
  <2>2. [NoVPA EXCEPT !.uid = vpa.uid] \in VPAs
    BY <2>1, NoVPATyped DEF VPAs
  <2>. QED
    BY <2>2, BoundAssumption DEF OrphanVPA, Intervene, TypeOK
<1>4. CacheTyped' /\ ResourcesTyped'
  BY <1>3 DEF OrphanVPA, TypeOK, CacheTyped, ResourcesTyped
<1>5. WorkerTyped'
  BY DEF OrphanVPA, TypeOK, WorkerTyped
<1>. QED
  BY <1>2, <1>3, <1>4, <1>5 DEF OrphanVPA, TypeOK

\* ... and the invariant.
LEMMA OrphanKeeps ==
    ASSUME OInv, OrphanVPA
    PROVE  PassConsistent' /\ OrphansInv'
<1>0. TypeOK /\ vpa.uid > 0
  BY DEF OInv, OwnersOrOrphans, OrphanVPA
<1>1. /\ UNCHANGED <<cache, vpaCache, up, queued, pc, idx, rvpa, held>>
      /\ vpaPending' /\ vpa'.uid = vpa.uid /\ ~vpa'.live
      /\ orphaned \subseteq orphaned'
  BY NoVPATyped DEF OrphanVPA, VPAs
<1>2. \A o \in Objects :
         \/ store'[o] = store[o] /\ pending'[o] = pending[o]
         \/ /\ o \in orphaned' /\ store'[o].owner = 0
            /\ store'[o] # store[o] /\ pending'[o] # "none"
            /\ o \in Watched => pending'[o] = "enqueue"
  BY <1>0, OrphanEffect
<1>3. PassConsistent'
  <2>1. pc = "put" /\ ~heldStale' => ~heldStale /\ store'[Order[idx]] = store[Order[idx]]
    BY DEF OrphanVPA
  <2>. QED
    BY <1>1, <2>1 DEF OInv, PassConsistent
<1>4. OrphansSilent'
  BY <1>1, <1>2 DEF OInv, OrphansSilent, Overlooked, Watched
<1>5. OwnersOrOrphans'
  BY <1>1, <1>2 DEF OInv, OwnersOrOrphans, Overlooked, Watched
<1>6. OthersCovered'
  BY <1>1 DEF OthersCovered
<1>. QED
  BY <1>3, <1>4, <1>5, <1>6 DEF OrphansInv

-----------------------------------------------------------------------------
(* The reconciler and its environment, with orphans about.                 *)

\* The start, the informers, a failed call and a crash: the store is left
\* alone, and but for the crash keys are queued.
LEMMA SchedulingOrphans ==
    ASSUME OInv, Start \/ Informers \/ CallFails \/ Crash, UNCHANGED orphaned
    PROVE  OrphansInv'
<1>. USE DEF clusterVars, cacheVars, workerVars
<1>0. /\ TypeOK /\ vpa.uid \in Nat /\ NoVPA.uid = 0
      /\ OrphansSilent /\ OwnersOrOrphans /\ OthersCovered
  BY NoVPATyped DEF OInv, TypeOK, ResourcesTyped, VPAs
<1>1. CASE Start
  <2>1. OrphansSilent' /\ OthersCovered'
    BY <1>1 DEF Start, OrphansSilent, OthersCovered, Watched
  <2>2. OwnersOrOrphans'
    BY <1>0, <1>1 DEF Start, OwnersOrOrphans, Overlooked
  <2>. QED
    BY <2>1, <2>2 DEF OrphansInv
<1>2. CASE SyncVPA \/ SyncAPIServer \/ Resync
  <2>1. OrphansSilent' /\ OthersCovered'
    BY <1>0, <1>2 DEF SyncVPA, SyncAPIServer, Resync, OrphansSilent, OthersCovered,
                      Overlooked
  <2>2. OwnersOrOrphans'
    BY <1>0, <1>2 DEF SyncVPA, SyncAPIServer, Resync, OwnersOrOrphans, Overlooked
  <2>. QED
    BY <2>1, <2>2 DEF OrphansInv
<1>3. ASSUME NEW o \in Objects, SyncObject(o) PROVE OrphansInv'
  <2>1. OrphansSilent'
    BY <1>0, <1>3 DEF SyncObject, OrphansSilent, Overlooked, TypeOK, StoreTyped,
                      CacheTyped, Watched
  <2>2. OwnersOrOrphans'
    BY <1>0, <1>3 DEF SyncObject, OwnersOrOrphans, Overlooked
  <2>3. OthersCovered'
    <3>1. \A p \in Watched : pending[p] = "enqueue" =>
                queued' \/ pending'[p] = "enqueue"
      BY <1>0, <1>3 DEF SyncObject, TypeOK, StoreTyped, Watched
    <3>2. queued => queued'
      BY <1>3 DEF SyncObject
    <3>. QED
      BY <1>0, <1>3, <3>1, <3>2 DEF SyncObject, OthersCovered, Remaining, Reconciled,
                                    Overlooked
  <2>. QED
    BY <2>1, <2>2, <2>3 DEF OrphansInv
<1>4. CASE CallFails \/ Crash
  <2>1. OrphansSilent'
    BY <1>0, <1>4 DEF CallFails, Crash, OrphansSilent, Overlooked
  <2>2. OwnersOrOrphans'
    BY <1>0, <1>4 DEF CallFails, Return, Crash, OwnersOrOrphans, Overlooked
  <2>3. OthersCovered'
    BY <1>4 DEF CallFails, Return, Crash, OthersCovered
  <2>. QED
    BY <2>1, <2>2, <2>3 DEF OrphansInv
<1>. QED
  BY <1>1, <1>2, <1>3, <1>4 DEF Informers

\* Changes of the resource and of the APIServer config.
LEMMA ResourcesOrphans ==
    ASSUME OInv, CreateVPA \/ EditVPA \/ DeleteVPA \/ ChangeAPIServer,
           UNCHANGED orphaned
    PROVE  OrphansInv'
<1>. USE DEF clusterVars, cacheVars, workerVars
<1>0. /\ OrphansSilent /\ OwnersOrOrphans /\ OthersCovered
      /\ vpa \in VPAs /\ vpa.uid \in Nat /\ (vpa.live => vpa.uid > 0)
      /\ vpaCache.uid \in Nat /\ rvpa.uid \in Nat
  BY DEF OInv, TypeOK, ResourcesTyped, WorkerTyped, VPAs, OwnersOrOrphans
<1>1. ASSUME NEW new \in VPAs, SetVPA(new), new.uid >= vpa.uid, new.live => new.uid > 0
      PROVE  OrphansInv'
  <2>1. OrphansSilent' /\ OthersCovered'
    BY <1>0, <1>1 DEF SetVPA, OrphansSilent, OthersCovered, Overlooked
  <2>2. OwnersOrOrphans'
    <3>1. new.uid \in Nat
      BY <1>1 DEF VPAs
    <3>. QED
      BY <1>0, <1>1, <3>1 DEF SetVPA, OwnersOrOrphans, Overlooked
  <2>. QED
    BY <2>1, <2>2 DEF OrphansInv
<1>2. CASE CreateVPA
  <2>1. PICK s \in VPASpecs : SetVPA([live |-> TRUE, spec |-> s, uid |-> vpa.uid + 1])
    BY <1>2 DEF CreateVPA
  <2>2. [live |-> TRUE, spec |-> s, uid |-> vpa.uid + 1] \in VPAs
    BY <1>0 DEF VPAs
  <2>. QED
    BY <1>0, <1>1, <2>1, <2>2
<1>3. CASE EditVPA
  <2>1. PICK s \in VPASpecs : SetVPA([vpa EXCEPT !.spec = s])
    BY <1>3 DEF EditVPA
  <2>. DEFINE new == [vpa EXCEPT !.spec = s]
  <2>2. new \in VPAs /\ new.uid = vpa.uid /\ new.live = vpa.live
    BY <1>0 DEF VPAs
  <2>3. SetVPA(new)
    BY <2>1
  <2>. HIDE DEF new
  <2>4. new.uid >= vpa.uid /\ (new.live => new.uid > 0)
    BY <1>0, <2>2
  <2>. QED
    BY <1>1, <2>2, <2>3, <2>4
<1>4. CASE DeleteVPA
  <2>. DEFINE new == [NoVPA EXCEPT !.uid = vpa.uid]
  <2>1. SetVPA(new)
    BY <1>4 DEF DeleteVPA
  <2>2. new \in VPAs /\ new.uid = vpa.uid /\ ~new.live
    BY <1>0, NoVPATyped DEF VPAs
  <2>. HIDE DEF new
  <2>3. new.uid >= vpa.uid
    BY <1>0, <2>2
  <2>. QED
    BY <1>1, <2>1, <2>2, <2>3
<1>5. CASE ChangeAPIServer
  <2>1. OrphansSilent' /\ OthersCovered'
    BY <1>0, <1>5 DEF ChangeAPIServer, OrphansSilent, OthersCovered, Overlooked,
                      Remaining, Reconciled
  <2>2. OwnersOrOrphans'
    BY <1>0, <1>5 DEF ChangeAPIServer, OwnersOrOrphans, Overlooked
  <2>. QED
    BY <2>1, <2>2 DEF OrphansInv
<1>. QED
  BY <1>2, <1>3, <1>4, <1>5

\* Others change or delete an object: an event reaches the queue, or the
\* object had lost its owner and still has none.
LEMMA OthersOrphans ==
    ASSUME OInv, NEW o \in Objects, UNCHANGED orphaned,
           TouchObject(o) \/ EditObject(o) \/ DeleteObject(o) \/ Collect(o)
    PROVE  OrphansInv'
<1>0. /\ TypeOK /\ StoreTyped /\ store[o].live
      /\ OrphansSilent /\ OwnersOrOrphans /\ OthersCovered
  BY OthersWrite DEF OInv, TypeOK
<1>1. PICK slot \in Slots :
         Disturb(o, slot) /\ (slot.live => slot.owner = store[o].owner)
  BY <1>0, OthersWrite
<1>2. /\ Write(o, slot)
      /\ UNCHANGED <<vpa, cache, vpaCache, vpaPending, cfg, up, queued, pc, idx, rvpa>>
  BY <1>1 DEF Disturb
<1>3. ~slot.live => slot.owner = 0
  <2>1. ~slot.live => slot = Absent
    <3>1. store' = [store EXCEPT ![o] = slot]
      BY <1>2 DEF Write
    <3>2. store'[o] = slot
      BY <1>0, <3>1 DEF StoreTyped
    <3>3. store[o] \in Slots
      BY <1>0 DEF StoreTyped
    <3>4. /\ [store[o] EXCEPT !.extra = @ + 1].live
          /\ [store[o] EXCEPT !.content = Foreign].live
      BY <1>0, <3>3 DEF Slots
    <3>5. \/ store'[o] = [store[o] EXCEPT !.extra = @ + 1]
          \/ store'[o] = [store[o] EXCEPT !.content = Foreign]
          \/ store'[o] = Absent
      BY <1>0 DEF TouchObject, EditObject, DeleteObject, Collect, Disturb, Write,
                  StoreTyped
    <3>. QED
      BY <3>2, <3>4, <3>5
  <2>. QED
    BY <2>1 DEF Absent
<1>4. /\ store'[o] = slot
      /\ \A p \in Objects : p # o => store'[p] = store[p] /\ pending'[p] = pending[p]
      /\ slot = store[o] => pending'[o] = pending[o]
      /\ slot # store[o] => pending'[o] # "none"
      /\ slot # store[o] /\ Enqueues(o, store[o], slot) => pending'[o] = "enqueue"
  BY <1>0, <1>2, WriteEffect
<1>5. o \in Watched =>
         \/ store[o].owner \in 1..vpa.uid
         \/ Overlooked(o) /\ store'[o].owner = 0
  BY <1>0, <1>1, <1>3, <1>4 DEF OwnersOrOrphans, Overlooked
<1>6. \A p \in Watched :
         \/ store'[p] = store[p] /\ pending'[p] = pending[p]
         \/ pending'[p] = "enqueue"
         \/ Overlooked(p) /\ store'[p].owner = 0
  BY <1>4, <1>5 DEF Enqueues, Watched
<1>7. OrphansSilent'
  <2>1. \A p \in Objects : pending'[p] = "none" => cache'[p] = store'[p]
    BY <1>0, <1>2, <1>4 DEF OrphansSilent
  <2>2. \A p \in Watched : pending'[p] = "silent" => Overlooked(p)'
    BY <1>0, <1>6 DEF OrphansSilent, Overlooked
  <2>. QED
    BY <1>0, <1>2, <2>1, <2>2 DEF OrphansSilent
<1>8. OwnersOrOrphans'
  <2>1. ASSUME NEW p \in Watched, store'[p].live
        PROVE  store'[p].owner \in 1..vpa.uid \/ Overlooked(p)'
    <3>1. CASE p = o
      BY <1>1, <1>4, <1>5, <2>1, <3>1 DEF Overlooked
    <3>2. CASE p # o
      BY <1>0, <1>4, <2>1, <3>2 DEF OwnersOrOrphans, Overlooked, Watched
    <3>. QED
      BY <3>1, <3>2
  <2>. QED
    BY <1>0, <1>2, <2>1 DEF OwnersOrOrphans
<1>9. OthersCovered'
  BY <1>0, <1>2, <1>6 DEF OthersCovered, Remaining, Reconciled, Overlooked
<1>. QED
  BY <1>7, <1>8, <1>9 DEF OrphansInv

\* The reads of a pass.  The copy of an object that lost its owner may be
\* outdated without a key on its way; any other that is passed over is current.
LEMMA ReadsOrphans ==
    ASSUME OInv, Reconcile \/ GetObject \/ UpdateObject, UNCHANGED orphaned
    PROVE  OrphansInv'
<1>. USE DEF clusterVars, cacheVars
<1>. DEFINE o == Order[idx]
<1>0. /\ TypeOK /\ WorkerTyped /\ PassConsistent /\ o \in Objects
      /\ NoVPA.uid = 0 /\ vpa.uid \in Nat
      /\ OrphansSilent /\ OwnersOrOrphans /\ OthersCovered
  BY OrderFacts, NoVPATyped DEF OInv, TypeOK, WorkerTyped, ResourcesTyped, VPAs
<1>1. UNCHANGED <<store, vpa, cache, pending, vpaCache, vpaPending, up>>
  BY DEF Reconcile, GetObject, UpdateObject
<1>2. OrphansSilent'
  BY <1>0, <1>1 DEF OrphansSilent, Overlooked
<1>3. OwnersOrOrphans'
  <2>1. \/ rvpa' = rvpa /\ pc # "idle"
        \/ rvpa' = rvpa /\ pc' = pc
        \/ rvpa' = NoVPA /\ pc' = "idle"
        \/ rvpa' = vpaCache /\ vpaCache.live
    BY DEF Reconcile, GetObject, UpdateObject, Goto, Advance, Return
  <2>. QED
    BY <1>0, <1>1, <2>1 DEF OwnersOrOrphans, Overlooked
<1>4. OthersCovered'
  <2>1. CASE queued'
    BY <2>1 DEF OthersCovered
  <2>2. CASE Reconcile /\ ~queued'
    <3>1. CASE pc' = "get"
      <4>1. idx' = 1
        BY <1>0, <2>2 DEF Reconcile, PassConsistent
      <4>2. \A p \in Objects : \E i \in 1..Len(Order) : Order[i] = p
        BY DEF Objects
      <4>. QED
        BY <3>1, <4>1, <4>2 DEF OthersCovered, Remaining, Watched
    <3>2. CASE ~vpaCache.live
      BY <1>0, <1>1, <3>2 DEF OrphansSilent, OthersCovered
    <3>. QED
      BY <2>2, <3>1, <3>2 DEF Reconcile
  <2>3. CASE /\ GetObject \/ UpdateObject
             /\ Advance /\ cache[o].live
             /\ cache[o].content = Expected(o, rvpa.spec, cfg)
    <3>. SUFFICES ASSUME up, vpa.live, ~queued', ~vpaPending,
                         NEW p \in Watched, pending[p] # "enqueue", ~Overlooked(p)
                  PROVE  Remaining(p)' \/ Reconciled(p)'
      BY <1>1 DEF OthersCovered, Overlooked
    <3>0. queued' = queued /\ pc # "idle" /\ cfg' = cfg
      BY <2>3 DEF Advance, Return, GetObject, UpdateObject, OInv, TypeOK, WorkerTyped
    <3>1. p \in Objects /\ (Remaining(p) \/ Reconciled(p))
      BY <1>0, <3>0 DEF OthersCovered, Watched
    <3>2. Reconciled(p) => Reconciled(p)'
      BY <1>1, <3>0 DEF Reconciled
    <3>3. CASE p # o
      BY <1>0, <2>3, <3>1, <3>2, <3>3, AdvanceRemaining
    <3>4. CASE p = o
      <4>1. store[p] = cache[p]
        BY <1>0, <3>1 DEF OrphansSilent, TypeOK, StoreTyped
      <4>2. rvpa = vpa
        BY <1>0, <3>0 DEF PassConsistent, OrphansSilent
      <4>3. Expected(p, vpa.spec, cfg) \in Contents(p)
        BY <1>0, <2>3, <3>1, <3>4, <4>2 DEF TypeOK, CacheTyped
      <4>4. Expected(p, vpa.spec, cfg) = Stored(p, vpa.spec, cfg)
        BY <1>0, <3>1, <4>3, EqualIsStored DEF TypeOK, ResourcesTyped, VPAs
      <4>. QED
        BY <2>3, <3>2, <3>4, <4>1, <4>2, <4>4 DEF Reconciled
    <3>. QED
      BY <3>3, <3>4
  <2>4. CASE pc # "idle" /\ pc' # "idle" /\ UNCHANGED <<idx, queued, cfg>>
    BY <1>0, <1>1, <2>4 DEF OthersCovered, Remaining, Reconciled, Overlooked
  <2>5. CASE GetObject
    BY <2>3, <2>4, <2>5 DEF GetObject, Goto, Matches
  <2>6. CASE UpdateObject
    <3>1. Return(TRUE) => queued'
      BY DEF Return
    <3>. QED
      BY <2>1, <2>3, <2>4, <2>6, <3>1 DEF UpdateObject, Matches
  <2>. QED
    BY <2>1, <2>2, <2>5, <2>6
<1>. QED
  BY <1>2, <1>3, <1>4 DEF OrphansInv

\* The writes of a pass: a new object has an owner, an existing one keeps
\* what it has.
LEMMA WritesOrphans ==
    ASSUME OInv, CreateObject \/ PutObject \/ PutPolicy, UNCHANGED orphaned
    PROVE  OrphansInv'
<1>. DEFINE o == Order[idx]
<1>0. /\ TypeOK /\ WorkerTyped /\ StoreTyped /\ PassConsistent /\ o \in Objects
      /\ NoVPA.uid = 0 /\ vpa.uid \in Nat /\ rvpa.uid \in Nat
      /\ OrphansSilent /\ OwnersOrOrphans /\ OthersCovered
  BY OrderFacts, NoVPATyped DEF OInv, TypeOK, WorkerTyped, ResourcesTyped, VPAs
<1>a. pc # "idle" /\ UNCHANGED <<vpa, cache, vpaCache, vpaPending, cfg, up>>
  BY DEF CreateObject, PutObject, PutPolicy
<1>1. /\ pc # "idle" /\ rvpa.uid \in 1..vpa.uid
      /\ UNCHANGED <<vpa, cache, vpaCache, vpaPending, cfg, up>>
  BY <1>0, <1>a DEF OwnersOrOrphans
<1>2. CASE Return(TRUE) /\ UNCHANGED <<store, pending, fails>>
  <2>1. OrphansSilent' /\ OthersCovered'
    BY <1>0, <1>1, <1>2 DEF Return, OrphansSilent, OthersCovered, Overlooked
  <2>2. OwnersOrOrphans'
    BY <1>0, <1>1, <1>2 DEF Return, OwnersOrOrphans, Overlooked
  <2>. QED
    BY <2>1, <2>2 DEF OrphansInv
<1>3. ASSUME NEW slot \in Slots, Write(o, slot), Reply, slot.live,
             slot.content = Stored(o, rvpa.spec, cfg),
             o \in Watched => slot.owner = IF store[o].live THEN store[o].owner
                                           ELSE rvpa.uid
      PROVE  OrphansInv'
  <2>1. /\ store'[o] = slot
        /\ \A p \in Objects : p # o => store'[p] = store[p] /\ pending'[p] = pending[p]
        /\ slot = store[o] => pending'[o] = pending[o]
        /\ slot # store[o] => pending'[o] # "none"
        /\ slot # store[o] /\ Enqueues(o, store[o], slot) => pending'[o] = "enqueue"
    BY <1>0, <1>3, WriteEffect
  <2>2. o \in Watched =>
           \/ slot.owner \in 1..vpa.uid
           \/ o \in orphaned /\ slot.owner = 0
    BY <1>0, <1>1, <1>3 DEF OwnersOrOrphans, Overlooked
  <2>3. OrphansSilent'
    <3>1. \A p \in Objects : pending'[p] = "none" => cache'[p] = store'[p]
      BY <1>0, <1>1, <2>1 DEF OrphansSilent
    <3>2. ASSUME NEW p \in Watched, pending'[p] = "silent" PROVE Overlooked(p)'
      <4>1. CASE p = o
        BY <1>0, <2>1, <2>2, <3>2, <4>1 DEF Enqueues, OrphansSilent, Overlooked
      <4>2. CASE p # o
        BY <1>0, <2>1, <3>2, <4>2 DEF OrphansSilent, Overlooked, Watched
      <4>. QED
        BY <4>1, <4>2
    <3>. QED
      BY <1>0, <1>1, <3>1, <3>2 DEF OrphansSilent
  <2>4. OwnersOrOrphans'
    <3>1. ASSUME NEW p \in Watched, store'[p].live
          PROVE  store'[p].owner \in 1..vpa.uid \/ Overlooked(p)'
      <4>1. CASE p = o
        BY <2>1, <2>2, <4>1 DEF Overlooked
      <4>2. CASE p # o
        BY <1>0, <2>1, <3>1, <4>2 DEF OwnersOrOrphans, Overlooked, Watched
      <4>. QED
        BY <4>1, <4>2
    <3>2. rvpa' = rvpa \/ (rvpa' = NoVPA /\ pc' = "idle")
      BY <1>3 DEF Reply, Advance, Return
    <3>. QED
      BY <1>0, <1>1, <3>1, <3>2 DEF OwnersOrOrphans
  <2>5. OthersCovered'
    <3>. SUFFICES ASSUME up, vpa.live, ~queued', ~vpaPending,
                         NEW p \in Watched, pending'[p] # "enqueue", ~Overlooked(p)'
                  PROVE  Remaining(p)' \/ Reconciled(p)'
      BY <1>1 DEF OthersCovered
    <3>0. Advance /\ ~queued
      BY <1>0, <1>3 DEF Reply, Advance, Return, WorkerTyped
    <3>1. p \in Objects
      BY DEF Watched
    <3>2. CASE p # o
      <4>1. store'[p] = store[p] /\ pending'[p] = pending[p]
        BY <2>1, <3>1, <3>2
      <4>2. Remaining(p) \/ Reconciled(p)
        BY <1>0, <3>0, <4>1 DEF OthersCovered, Overlooked
      <4>. QED
        BY <1>0, <1>1, <3>0, <3>1, <3>2, <4>1, <4>2, AdvanceRemaining DEF Reconciled
    <3>3. CASE p = o
      <4>1. rvpa = vpa
        BY <1>0, <1>1, <3>0 DEF PassConsistent, OrphansSilent
      <4>. QED
        BY <1>1, <1>3, <2>1, <3>3, <4>1 DEF Reconciled
    <3>. QED
      BY <3>2, <3>3
  <2>. QED
    BY <2>3, <2>4, <2>5 DEF OrphansInv
<1>4. \/ Return(TRUE) /\ UNCHANGED <<store, pending, fails>>
      \/ \E slot \in Slots :
            /\ Write(o, slot) /\ Reply /\ slot.live
            /\ slot.content = Stored(o, rvpa.spec, cfg)
            /\ o \in Watched => slot.owner = IF store[o].live THEN store[o].owner
                                            ELSE rvpa.uid
  BY <1>0, PassWrite
<1>. QED
  BY <1>2, <1>3, <1>4

-----------------------------------------------------------------------------
(* The invariant and what follows from it.                                 *)

\* Every initial state satisfies it.
LEMMA OrphansInit == OInit => OInv
<1>. SUFFICES ASSUME OInit PROVE OInv
  OBVIOUS
<1>1. IInv
  BY InvInit DEF OInit
<1>2. orphaned = {}
  BY DEF OInit
<1>. QED
  BY <1>1, <1>2 DEF IInv, CachesCurrent, UidsIssued, OwnerKept, Covered, OInv,
                    OrphansSilent, OwnersOrOrphans, OthersCovered

\* Every step keeps it.
LEMMA OrphansStep == OInv /\ [ONext]_ovars => OInv'
<1>. SUFFICES ASSUME OInv, [ONext]_ovars PROVE OInv'
  OBVIOUS
<1>1. CASE OrphanVPA
  <2>1. orphaned' \subseteq Objects
    BY <1>1 DEF OInv, OrphanVPA
  <2>. QED
    BY <1>1, <2>1, OrphanTyped, OrphanKeeps DEF OInv, OrphansInv
<1>2. CASE [Next]_vars /\ UNCHANGED orphaned
  <2>1. TypeOK'
    BY <1>2, TypeStep DEF OInv
  <2>2. PassConsistent'
    BY <1>2, PassStep DEF OInv, OrphansSilent
  <2>3. OrphansInv'
    <3>1. CASE UNCHANGED vars
      BY <1>2, <3>1 DEF vars, clusterVars, cacheVars, workerVars, OInv, OrphansInv,
                        OrphansSilent, OwnersOrOrphans, OthersCovered, Overlooked,
                        Remaining, Reconciled
    <3>2. CASE Next
      BY <1>2, <3>2, SchedulingOrphans, ResourcesOrphans, OthersOrphans,
         ReadsOrphans, WritesOrphans DEF Next, Operator, Environment
    <3>. QED
      BY <1>2, <3>1, <3>2
  <2>. QED
    BY <1>2, <2>1, <2>2, <2>3 DEF OInv, OrphansInv
<1>. QED
  BY <1>1, <1>2 DEF ONext, ovars

\* The invariant of the reconciler with orphans about.
THEOREM OrphansInductive == OSpec => []OInv
BY OrphansInit, OrphansStep, PTL DEF OSpec

\* Orphaning the objects of a resource costs no other object anything: with an
\* empty queue and delivered events, whatever is not as the resource asks has
\* lost its owner and was not created anew since.
THEOREM OrphansOnly == OSpec => []OnlyOrphansOverlooked
<1>1. OInv => OnlyOrphansOverlooked
  BY DEF OInv, OthersCovered, OnlyOrphansOverlooked, Quiet, Remaining
<1>. QED
  BY <1>1, OrphansInductive, PTL
=============================================================================
