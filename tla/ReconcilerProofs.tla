-------------------------- MODULE ReconcilerProofs --------------------------
(* Proofs about Reconciler, for every visiting order, every set of specs,  *)
(* profiles and versions, and every bound.                                 *)
EXTENDS Reconciler, TLAPS

USE OrderAssumption, BoundAssumption

-----------------------------------------------------------------------------
(* Facts about the constants and the initial values.                       *)

\* Every position of the visiting order names an object.
LEMMA OrderFacts ==
    /\ Len(Order) \in Nat /\ 1 \in 1..Len(Order)
    /\ \A i \in 1..Len(Order) : Order[i] \in Objects
BY DEF Objects

\* The slot of a missing object is well-typed for every object.
LEMMA AbsentTyped ==
    /\ Absent \in Slots
    /\ \A o \in Objects : Absent.content \in Contents(o)
BY OrderFacts DEF Absent, Slots, Contents

\* The record standing for a missing resource is well-typed.
LEMMA NoVPATyped == NoVPA \in VPAs /\ ~NoVPA.live /\ NoVPA.uid = 0
<1>1. PICK v \in Overrides : TRUE
  BY CanonicalAssumption
<1>2. [recommendationOnly |-> TRUE, overrides |-> v] \in VPASpecs
  BY DEF VPASpecs
<1>3. (CHOOSE s \in VPASpecs : TRUE) \in VPASpecs
  BY <1>2
<1>. QED
  BY <1>3 DEF NoVPA, VPAs

\* The API server stores what the reconciler writes in canonical form.
LEMMA StoredTyped ==
    ASSUME NEW o \in Objects, NEW s \in VPASpecs, NEW c \in Configs
    PROVE  Stored(o, s, c) \in Contents(o)
BY DEF Contents

\* Stored content that compares equal to the expected content is what the
\* API server makes of it: DeepEqual in the Update methods is conclusive.
LEMMA EqualIsStored ==
    ASSUME NEW o \in Objects, NEW s \in VPASpecs, NEW c \in Configs,
           Expected(o, s, c) \in Contents(o)
    PROVE  Expected(o, s, c) = Stored(o, s, c)
<1>1. PICK t \in VPASpecs, d \in Configs : Expected(o, s, c) = Stored(o, t, d)
  BY ContentAssumption DEF Contents
<1>2. CASE o \in Deployments
  <2>1. s.overrides = Canonical[t.overrides]
    BY <1>1, <1>2 DEF Expected, Stored, PodSpec, VPASpecs
  <2>2. Canonical[s.overrides] = s.overrides
    BY <2>1, CanonicalAssumption DEF VPASpecs
  <2>. QED
    BY <2>2 DEF Stored, VPASpecs
<1>3. CASE o \notin Deployments
  BY <1>3 DEF Expected, Stored
<1>. QED
  BY <1>2, <1>3

-----------------------------------------------------------------------------
(* Type correctness, by the effects the actions are built from.            *)

\* A write of a well-typed slot leaves a well-typed store and events.
LEMMA WriteTyped ==
    ASSUME StoreTyped, NEW o \in Objects, NEW slot \in Slots,
           slot.content \in Contents(o), Write(o, slot)
    PROVE  StoreTyped'
<1>1. store' \in [Objects -> Slots]
  BY DEF StoreTyped, Write
<1>2. pending' \in [Objects -> {"none", "silent", "enqueue"}]
  BY DEF StoreTyped, Write
<1>3. \A p \in Objects : store'[p].content \in Contents(p)
  BY DEF StoreTyped, Write
<1>. QED
  BY <1>1, <1>2, <1>3 DEF StoreTyped

\* Returning from Reconcile resets the worker to a well-typed state.
LEMMA ReturnTyped ==
    ASSUME WorkerTyped, NEW b \in BOOLEAN, Return(b)
    PROVE  WorkerTyped'
<1>1. held' = Absent /\ idx' = 1 /\ rvpa' = NoVPA
  BY DEF Return
<1>2. held' \in Slots /\ (held.content \in Contents(Order[idx]))'
  BY <1>1, AbsentTyped, OrderFacts
<1>. QED
  BY <1>1, <1>2, NoVPATyped, OrderFacts DEF Return, WorkerTyped

\* Moving on to the next object keeps the worker well-typed.
LEMMA AdvanceTyped ==
    ASSUME WorkerTyped, Advance
    PROVE  WorkerTyped'
<1>1. CASE idx = Len(Order)
  BY <1>1, ReturnTyped DEF Advance
<1>2. CASE idx # Len(Order)
  <2>0. idx' = idx + 1 /\ held' = Absent
    BY <1>2 DEF Advance
  <2>1. idx' \in 1..Len(Order)
    BY <1>2, <2>0, OrderFacts DEF WorkerTyped
  <2>2. held' \in Slots /\ (held.content \in Contents(Order[idx]))'
    BY <2>0, <2>1, AbsentTyped, OrderFacts
  <2>. QED
    BY <1>2, <2>1, <2>2 DEF Advance, WorkerTyped
<1>. QED
  BY <1>1, <1>2

\* Both outcomes of an applied write keep the worker well-typed.
LEMMA ReplyTyped ==
    ASSUME WorkerTyped, fails \in 0..MaxFails, Reply
    PROVE  WorkerTyped' /\ fails' \in 0..MaxFails
<1>1. CASE Advance /\ UNCHANGED fails
  BY <1>1, AdvanceTyped
<1>2. CASE fails < MaxFails /\ fails' = fails + 1 /\ Return(TRUE)
  <2>1. WorkerTyped'
    BY <1>2, ReturnTyped
  <2>. QED
    BY <1>2, <2>1
<1>. QED
  BY <1>1, <1>2 DEF Reply

\* A write by anybody else keeps all of the reconciler's types.
LEMMA DisturbTyped ==
    ASSUME TypeOK, NEW o \in Objects, NEW slot \in Slots,
           slot.content \in Contents(o), Disturb(o, slot), env' \in 0..MaxEnv
    PROVE  TypeOK'
<1>1. StoreTyped'
  BY WriteTyped DEF TypeOK, Disturb
<1>2. CacheTyped' /\ ResourcesTyped'
  BY DEF TypeOK, Disturb, CacheTyped, ResourcesTyped
<1>3. WorkerTyped'
  BY DEF TypeOK, Disturb, WorkerTyped
<1>. QED
  BY <1>1, <1>2, <1>3 DEF TypeOK, Disturb

\* syncTLSProfile yields a profile or nil.
LEMMA SyncTLSTyped ==
    ASSUME NEW tls \in TLSSettings, NEW a \in APIServers
    PROVE  syncTLSProfile(tls, a) \in TLSSettings
BY DEF syncTLSProfile, TLSSettings, APIServers

\* Every initial state is well-typed.
LEMMA TypeInit == Init => TypeOK
<1>. SUFFICES ASSUME Init PROVE TypeOK
  OBVIOUS
<1>1. StoreTyped /\ CacheTyped
  BY AbsentTyped DEF Init, StoreTyped, CacheTyped
<1>2. ResourcesTyped
  <2>1. vpa \in VPAs
    <3>1. CASE vpa = NoVPA
      BY <3>1, NoVPATyped
    <3>2. CASE \E s \in VPASpecs : vpa = [live |-> TRUE, spec |-> s, uid |-> 1]
      BY <3>2 DEF VPAs
    <3>. QED
      BY <3>1, <3>2 DEF Init
  <2>2. api \in APIServers
    BY DEF Init
  <2>. QED
    BY <2>1, <2>2 DEF Init, ResourcesTyped
<1>3. WorkerTyped
  BY AbsentTyped, NoVPATyped, OrderFacts DEF Init, WorkerTyped
<1>4. cfg \in Configs
  BY DEF Init, Configs, TLSSettings
<1>5. env \in 0..MaxEnv /\ fails \in 0..MaxFails
  BY DEF Init
<1>6. up \in BOOLEAN
  BY DEF Init
<1>. QED
  BY <1>1, <1>2, <1>3, <1>4, <1>5, <1>6 DEF TypeOK

\* Every step keeps the types.
LEMMA TypeStep == TypeOK /\ [Next]_vars => TypeOK'
<1>. SUFFICES ASSUME TypeOK, [Next]_vars PROVE TypeOK'
  OBVIOUS
<1>. USE DEF clusterVars, cacheVars, workerVars
<1>s. ASSUME UNCHANGED vars PROVE TypeOK'
  BY <1>s DEF vars, TypeOK, StoreTyped, CacheTyped, ResourcesTyped, WorkerTyped
<1>1. ASSUME Start PROVE TypeOK'
  <2>1. StoreTyped' /\ CacheTyped'
    BY <1>1 DEF Start, TypeOK, StoreTyped, CacheTyped
  <2>2. ResourcesTyped' /\ WorkerTyped'
    BY <1>1 DEF Start, TypeOK, ResourcesTyped, WorkerTyped
  <2>3. cfg' \in Configs
    BY <1>1 DEF Start, TypeOK, ResourcesTyped, APIServers, Configs, TLSSettings
  <2>. QED
    BY <1>1, <2>1, <2>2, <2>3 DEF Start, TypeOK
<1>2. ASSUME Reconcile PROVE TypeOK'
  <2>1. StoreTyped' /\ CacheTyped' /\ ResourcesTyped'
    BY <1>2 DEF Reconcile, TypeOK, StoreTyped, CacheTyped, ResourcesTyped
  <2>2. WorkerTyped'
    BY <1>2 DEF Reconcile, TypeOK, ResourcesTyped, WorkerTyped
  <2>3. cfg' \in Configs
    BY <1>2, SyncTLSTyped DEF Reconcile, TypeOK, ResourcesTyped, Configs
  <2>4. fails' \in 0..MaxFails
    <3>1. fails' = fails \/ (fails < MaxFails /\ fails' = fails + 1)
      BY <1>2 DEF Reconcile
    <3>. QED
      BY <3>1 DEF TypeOK
  <2>5. up' \in BOOLEAN /\ env' \in 0..MaxEnv
    BY <1>2 DEF Reconcile, TypeOK
  <2>. QED
    BY <2>1, <2>2, <2>3, <2>4, <2>5 DEF TypeOK
<1>3. ASSUME GetObject PROVE TypeOK'
  <2>1. WorkerTyped'
    BY <1>3, AdvanceTyped DEF GetObject, Goto, TypeOK, WorkerTyped
  <2>. QED
    BY <1>3, <2>1 DEF GetObject, TypeOK, StoreTyped, CacheTyped, ResourcesTyped
<1>4. ASSUME UpdateObject PROVE TypeOK'
  <2>. DEFINE o == Order[idx]
  <2>1. o \in Objects
    BY OrderFacts DEF TypeOK, WorkerTyped
  <2>2. ASSUME pc' = "put", held' = cache[o], heldStale' = (pending[o] # "none"),
               UNCHANGED <<idx, rvpa, queued>>
        PROVE  WorkerTyped'
    BY <2>1, <2>2 DEF TypeOK, WorkerTyped, CacheTyped
  <2>3. WorkerTyped'
    BY <1>4, <2>2, AdvanceTyped, ReturnTyped DEF UpdateObject, TypeOK
  <2>. QED
    BY <1>4, <2>3 DEF UpdateObject, TypeOK, StoreTyped, CacheTyped, ResourcesTyped
<1>5. ASSUME CreateObject \/ PutObject \/ PutPolicy PROVE TypeOK'
  <2>. DEFINE o == Order[idx]
  <2>1. o \in Objects /\ Stored(o, rvpa.spec, cfg) \in Contents(o)
    BY OrderFacts, StoredTyped DEF TypeOK, WorkerTyped, VPAs
  <2>2. Stored(o, rvpa.spec, cfg) \in UNION {Contents(p) : p \in Objects}
    BY <2>1
  <2>3. /\ vpa' = vpa /\ api' = api /\ cache' = cache /\ vpaCache' = vpaCache
        /\ vpaPending' = vpaPending /\ apiCache' = apiCache
        /\ apiPending' = apiPending /\ cfg' = cfg /\ up' = up /\ env' = env
    BY <1>5 DEF CreateObject, PutObject, PutPolicy
  <2>4. CASE Return(TRUE) /\ UNCHANGED <<store, pending, fails>>
    <3>1. WorkerTyped'
      BY <2>4, ReturnTyped DEF TypeOK
    <3>. QED
      BY <2>3, <2>4, <3>1 DEF TypeOK, StoreTyped, CacheTyped, ResourcesTyped
  <2>5. ASSUME NEW slot \in Slots, slot.content \in Contents(o),
               Write(o, slot), Reply
        PROVE  TypeOK'
    <3>1. WorkerTyped' /\ fails' \in 0..MaxFails
      BY <2>5, ReplyTyped DEF TypeOK
    <3>2. StoreTyped'
      BY <2>1, <2>5, WriteTyped DEF TypeOK
    <3>. QED
      BY <2>3, <3>1, <3>2 DEF TypeOK, CacheTyped, ResourcesTyped
  <2>6. CASE CreateObject
    <3>. DEFINE new == [live |-> TRUE, content |-> Stored(o, rvpa.spec, cfg),
                        extra |-> 0, owner |-> rvpa.uid]
    <3>1. new \in Slots /\ new.content \in Contents(o)
      BY <2>1, <2>2 DEF Slots, TypeOK, WorkerTyped, VPAs
    <3>. QED
      BY <2>4, <2>5, <2>6, <3>1 DEF CreateObject, NewObject
  <2>7. CASE PutObject
    <3>. DEFINE new == [held EXCEPT !.content = Stored(o, rvpa.spec, cfg)]
    <3>1. new \in Slots /\ new.content \in Contents(o)
      BY <2>1, <2>2 DEF Slots, TypeOK, WorkerTyped
    <3>. QED
      BY <2>4, <2>5, <2>7, <3>1 DEF PutObject, MergedObject
  <2>8. CASE PutPolicy
    <3>. DEFINE new == [live |-> TRUE, content |-> Stored(o, rvpa.spec, cfg),
                        extra |-> 0, owner |-> 0]
    <3>1. new \in Slots /\ new.content \in Contents(o)
      BY <2>1, <2>2 DEF Slots
    <3>. QED
      BY <2>4, <2>5, <2>8, <3>1 DEF PutPolicy, NewPolicy
  <2>. QED
    BY <1>5, <2>6, <2>7, <2>8
<1>6. ASSUME CallFails PROVE TypeOK'
  <2>1. WorkerTyped'
    BY <1>6, ReturnTyped DEF CallFails, TypeOK
  <2>. QED
    BY <1>6, <2>1 DEF CallFails, TypeOK, StoreTyped, CacheTyped, ResourcesTyped
<1>7. ASSUME Informers PROVE TypeOK'
  <2>1. CASE SyncVPA \/ SyncAPIServer \/ Resync
    BY <2>1 DEF SyncVPA, SyncAPIServer, Resync, TypeOK, StoreTyped, CacheTyped,
                ResourcesTyped, WorkerTyped
  <2>2. ASSUME NEW o \in Objects, SyncObject(o) PROVE TypeOK'
    BY <2>2 DEF SyncObject, TypeOK, StoreTyped, CacheTyped, ResourcesTyped,
                WorkerTyped
  <2>. QED
    BY <1>7, <2>1, <2>2 DEF Informers
<1>8. ASSUME Environment PROVE TypeOK'
  <2>1. ASSUME NEW new \in VPAs, SetVPA(new) PROVE TypeOK'
    BY <2>1 DEF SetVPA, Intervene, TypeOK, StoreTyped, CacheTyped,
                ResourcesTyped, WorkerTyped
  <2>2. CASE CreateVPA \/ EditVPA \/ DeleteVPA
    <3>1. vpa \in VPAs /\ vpa.uid \in Nat
      BY DEF TypeOK, ResourcesTyped, VPAs
    <3>2. \A s \in VPASpecs :
             /\ [live |-> TRUE, spec |-> s, uid |-> vpa.uid + 1] \in VPAs
             /\ [vpa EXCEPT !.spec = s] \in VPAs
      BY <3>1 DEF VPAs
    <3>3. [NoVPA EXCEPT !.uid = vpa.uid] \in VPAs
      BY <3>1, NoVPATyped DEF VPAs
    <3>. QED
      BY <2>1, <2>2, <3>2, <3>3 DEF CreateVPA, EditVPA, DeleteVPA
  <2>3. CASE ChangeAPIServer
    <3>1. api' \in APIServers
      <4>1. NoAPIServer \in APIServers
        BY DEF NoAPIServer, APIServers
      <4>. QED
        BY <2>3, <4>1 DEF ChangeAPIServer, APIServerConfigs
    <3>. QED
      BY <2>3, <3>1 DEF ChangeAPIServer, Intervene, TypeOK, StoreTyped,
                        CacheTyped, ResourcesTyped, WorkerTyped
  <2>4. CASE Crash
    <3>1. WorkerTyped'
      BY <2>4, AbsentTyped, NoVPATyped, OrderFacts DEF Crash, WorkerTyped
    <3>2. env' \in 0..MaxEnv
      BY <2>4 DEF Crash, Intervene, TypeOK
    <3>3. up' \in BOOLEAN
      BY <2>4 DEF Crash
    <3>. QED
      BY <2>4, <3>1, <3>2, <3>3 DEF Crash, TypeOK, StoreTyped, CacheTyped,
                                    ResourcesTyped
  <2>5. ASSUME NEW o \in Objects,
               TouchObject(o) \/ EditObject(o) \/ DeleteObject(o) \/ Collect(o)
        PROVE  TypeOK'
    <3>0. store[o] \in Slots /\ store[o].content \in Contents(o)
      BY DEF TypeOK, StoreTyped
    <3>f. Foreign \in Contents(o)
      BY DEF Contents
    <3>1. /\ [store[o] EXCEPT !.extra = @ + 1] \in Slots
          /\ [store[o] EXCEPT !.extra = @ + 1].content \in Contents(o)
      BY <3>0 DEF Slots
    <3>2. /\ [store[o] EXCEPT !.content = Foreign] \in Slots
          /\ [store[o] EXCEPT !.content = Foreign].content \in Contents(o)
      BY <3>0, <3>f DEF Slots
    <3>3. env' \in 0..MaxEnv
      BY <2>5 DEF TouchObject, EditObject, DeleteObject, Collect, Intervene, TypeOK
    <3>4. CASE TouchObject(o)
      BY <3>1, <3>3, <3>4, DisturbTyped DEF TouchObject
    <3>5. CASE EditObject(o)
      BY <3>2, <3>3, <3>5, DisturbTyped DEF EditObject
    <3>6. CASE DeleteObject(o) \/ Collect(o)
      BY <3>3, <3>6, DisturbTyped, AbsentTyped DEF DeleteObject, Collect
    <3>. QED
      BY <2>5, <3>4, <3>5, <3>6
  <2>. QED
    BY <1>8, <2>2, <2>3, <2>4, <2>5 DEF Environment
<1>. QED
  BY <1>s, <1>1, <1>2, <1>3, <1>4, <1>5, <1>6, <1>7, <1>8 DEF Next, Operator

\* The type invariant of the reconciler, its caches and its queue.
THEOREM TypeCorrect == Spec => []TypeOK
BY TypeInit, TypeStep, PTL DEF Spec

-----------------------------------------------------------------------------
(* What writes and the worker's moves do to the rest of the state.         *)

\* A write replaces one slot and at most adds an event about it.
LEMMA WriteEffect ==
    ASSUME StoreTyped, NEW o \in Objects, NEW slot \in Slots, Write(o, slot)
    PROVE  /\ store'[o] = slot
           /\ \A p \in Objects : p # o =>
                  store'[p] = store[p] /\ pending'[p] = pending[p]
           /\ slot = store[o] => pending'[o] = pending[o]
           /\ slot # store[o] => pending'[o] # "none"
           /\ slot # store[o] /\ Enqueues(o, store[o], slot) =>
                  pending'[o] = "enqueue"
BY DEF StoreTyped, Write

\* A write that keeps or sets an owner reaches the queue by an event.
LEMMA WriteCaches ==
    ASSUME StoreTyped, CachesCurrent, NEW o \in Objects, NEW slot \in Slots,
           Write(o, slot),
           o \in Watched => store[o].owner # 0 \/ slot.owner # 0,
           UNCHANGED <<cache, vpa, vpaCache, vpaPending, api, apiCache, apiPending>>
    PROVE  CachesCurrent'
<1>1. \A p \in Objects : pending'[p] = "none" => cache'[p] = store'[p]
  BY WriteEffect DEF CachesCurrent
<1>2. \A p \in Watched : pending'[p] # "silent"
  BY WriteEffect DEF CachesCurrent, Enqueues, Watched
<1>. QED
  BY <1>1, <1>2 DEF CachesCurrent

\* Touching, editing, deleting and collecting are writes by others to a live
\* object that leave its owner alone.
LEMMA OthersWrite ==
    ASSUME TypeOK, NEW o \in Objects,
           TouchObject(o) \/ EditObject(o) \/ DeleteObject(o) \/ Collect(o)
    PROVE  /\ store[o].live
           /\ \E slot \in Slots :
                 /\ Disturb(o, slot)
                 /\ slot.live => /\ slot.owner = store[o].owner
                                 /\ slot.extra >= store[o].extra
<1>1. store[o] \in Slots
  BY DEF TypeOK, StoreTyped
<1>2. CASE TouchObject(o)
  <2>. DEFINE slot == [store[o] EXCEPT !.extra = @ + 1]
  <2>1. /\ slot \in Slots
        /\ slot.owner = store[o].owner /\ slot.extra >= store[o].extra
    BY <1>1 DEF Slots
  <2>. QED
    BY <1>2, <2>1 DEF TouchObject
<1>3. CASE EditObject(o)
  <2>. DEFINE slot == [store[o] EXCEPT !.content = Foreign]
  <2>1. Foreign \in Contents(o)
    BY DEF Contents
  <2>2. /\ slot \in Slots
        /\ slot.owner = store[o].owner /\ slot.extra >= store[o].extra
    BY <1>1, <2>1 DEF Slots
  <2>. QED
    BY <1>3, <2>2 DEF EditObject
<1>4. CASE DeleteObject(o) \/ Collect(o)
  <2>1. Absent \in Slots /\ ~Absent.live
    BY AbsentTyped DEF Absent
  <2>. QED
    BY <1>4, <2>1 DEF DeleteObject, Collect
<1>. QED
  BY <1>2, <1>3, <1>4

\* A write of the reconciler is refused and the key requeued, or it leaves
\* the object with the content of this pass; a watched object that existed
\* keeps its owner and its extras, a new one belongs to the resource.
LEMMA PassWrite ==
    ASSUME TypeOK, PassConsistent, CreateObject \/ PutObject \/ PutPolicy
    PROVE  \/ Return(TRUE) /\ UNCHANGED <<store, pending, fails>>
           \/ \E slot \in Slots :
                 /\ Write(Order[idx], slot) /\ Reply
                 /\ slot.live
                 /\ slot.content = Stored(Order[idx], rvpa.spec, cfg)
                 /\ Order[idx] \in Watched =>
                       IF store[Order[idx]].live
                       THEN /\ slot.owner = store[Order[idx]].owner
                            /\ slot.extra = store[Order[idx]].extra
                       ELSE slot.owner = rvpa.uid
<1>. DEFINE o == Order[idx]
            content == Stored(o, rvpa.spec, cfg)
<1>1. /\ o \in Objects /\ rvpa.uid \in Nat
      /\ content \in UNION {Contents(p) : p \in Objects}
  BY OrderFacts, StoredTyped DEF TypeOK, WorkerTyped, VPAs
<1>. HIDE DEF o, content
<1>2. CASE CreateObject
  <2>. DEFINE slot == [live |-> TRUE, content |-> content,
                       extra |-> 0, owner |-> rvpa.uid]
  <2>1. slot \in Slots
    BY <1>1 DEF Slots
  <2>. QED
    BY <1>2, <2>1 DEF CreateObject, NewObject, o, content
<1>3. CASE PutObject
  <2>. DEFINE slot == [held EXCEPT !.content = content]
  <2>1. o \in Watched
    BY <1>1, <1>3 DEF PutObject, Watched, o
  <2>2. CASE heldStale
    BY <1>3, <2>2 DEF PutObject
  <2>3. CASE ~heldStale
    <3>1. held = store[o] /\ held.live /\ held \in Slots
      BY <1>3, <2>1, <2>3 DEF PutObject, PassConsistent, TypeOK, WorkerTyped, o
    <3>2. slot \in Slots /\ slot.live = held.live /\ slot.content = content
          /\ slot.owner = held.owner /\ slot.extra = held.extra
      BY <1>1, <3>1 DEF Slots
    <3>. QED
      BY <1>3, <2>3, <3>1, <3>2 DEF PutObject, MergedObject, o, content
  <2>. QED
    BY <2>2, <2>3
<1>4. CASE PutPolicy
  <2>. DEFINE slot == [live |-> TRUE, content |-> content, extra |-> 0, owner |-> 0]
  <2>1. slot \in Slots
    BY <1>1 DEF Slots
  <2>2. o \notin Watched
    BY <1>4 DEF PutPolicy, Watched, o
  <2>. QED
    BY <1>4, <2>1, <2>2 DEF PutPolicy, NewPolicy, o, content
<1>. QED
  BY <1>2, <1>3, <1>4

\* Under the invariant the owner is an issued UID in both cases.
LEMMA OwnWrite ==
    ASSUME IInv, CreateObject \/ PutObject \/ PutPolicy
    PROVE  \/ Return(TRUE) /\ UNCHANGED <<store, pending, fails>>
           \/ \E slot \in Slots :
                 /\ Write(Order[idx], slot) /\ Reply
                 /\ slot.live
                 /\ slot.content = Stored(Order[idx], rvpa.spec, cfg)
                 /\ Order[idx] \in Watched =>
                       /\ slot.owner \in 1..vpa.uid
                       /\ store[Order[idx]].live =>
                             /\ slot.owner = store[Order[idx]].owner
                             /\ slot.extra = store[Order[idx]].extra
<1>1. TypeOK /\ PassConsistent /\ pc # "idle"
  BY DEF IInv, CreateObject, PutObject, PutPolicy
<1>2. rvpa.uid \in 1..vpa.uid
  BY <1>1 DEF IInv, UidsIssued, TypeOK, WorkerTyped, ResourcesTyped, VPAs
<1>3. Order[idx] \in Watched /\ store[Order[idx]].live =>
         store[Order[idx]].owner \in 1..vpa.uid
  BY DEF IInv, UidsIssued, OwnerKept
<1>. QED
  BY <1>1, <1>2, <1>3, PassWrite

\* Moving on keeps every other object of the pass ahead.
LEMMA AdvanceRemaining ==
    ASSUME WorkerTyped, Advance, NEW o \in Objects, o # Order[idx], Remaining(o)
    PROVE  Remaining(o)' /\ queued' = queued
<1>1. PICK i \in idx..Len(Order) : Order[i] = o
  BY DEF Remaining
<1>2. i \in (idx + 1)..Len(Order) /\ idx # Len(Order)
  BY <1>1, OrderFacts DEF WorkerTyped
<1>3. idx' = idx + 1 /\ pc' = "get" /\ queued' = queued
  BY <1>2 DEF Advance
<1>. QED
  BY <1>1, <1>2, <1>3 DEF Remaining

\* Ending the pass, or moving on, leaves nothing held.
LEMMA ReturnOrAdvance ==
    ASSUME WorkerTyped, PassConsistent, pc # "idle", Advance \/ Return(TRUE),
           UNCHANGED <<vpaCache, up>>
    PROVE  PassConsistent'
<1>1. CASE pc' = "idle"
  BY <1>1 DEF Advance, Return, PassConsistent
<1>2. CASE pc' # "idle"
  <2>1. pc' = "get" /\ UNCHANGED <<rvpa, queued>>
    BY <1>2 DEF Advance, Return
  <2>. QED
    BY <2>1 DEF PassConsistent
<1>. QED
  BY <1>1, <1>2

\* As long as a cached copy without an undelivered event is the stored one, a
\* pass holds the current version of what it writes back, or knows it does not.
LEMMA PassStep ==
    ASSUME TypeOK, PassConsistent, [Next]_vars,
           \A o \in Objects : pending[o] = "none" => cache[o] = store[o]
    PROVE  PassConsistent'
<1>. USE DEF clusterVars, cacheVars, workerVars
<1>. DEFINE o == Order[idx]
<1>0. o \in Objects /\ WorkerTyped /\ StoreTyped
  BY OrderFacts DEF TypeOK, WorkerTyped
<1>1. CASE UNCHANGED vars
  BY <1>1 DEF vars, PassConsistent
<1>2. CASE Start \/ Informers
  BY <1>2 DEF Start, Informers, SyncVPA, SyncAPIServer, Resync, SyncObject,
              PassConsistent
<1>3. CASE CreateVPA \/ EditVPA \/ DeleteVPA \/ ChangeAPIServer \/ Crash
  BY <1>3 DEF CreateVPA, EditVPA, DeleteVPA, SetVPA, ChangeAPIServer, Crash,
              PassConsistent
<1>4. ASSUME NEW p \in Objects,
             TouchObject(p) \/ EditObject(p) \/ DeleteObject(p) \/ Collect(p)
      PROVE  PassConsistent'
  <2>1. PICK slot \in Slots : Disturb(p, slot)
    BY <1>4, OthersWrite
  <2>2. /\ up' = up /\ queued' = queued /\ pc' = pc /\ idx' = idx
        /\ rvpa' = rvpa /\ vpaCache' = vpaCache /\ held' = held
        /\ heldStale' = (heldStale \/ (pc = "put" /\ p = o /\ slot # store[p]))
    BY <2>1 DEF Disturb
  <2>3. Write(p, slot)
    BY <2>1 DEF Disturb
  <2>4. /\ store'[p] = slot
        /\ \A q \in Objects : q # p => store'[q] = store[q]
    BY <1>0, <2>3, WriteEffect
  <2>5. pc = "put" /\ ~heldStale' => ~heldStale /\ store'[o] = store[o]
    BY <1>0, <2>2, <2>4
  <2>. QED
    BY <2>2, <2>5 DEF PassConsistent
<1>5. CASE Reconcile
  BY <1>5 DEF Reconcile, PassConsistent
<1>6. CASE GetObject \/ UpdateObject
  <2>1. UNCHANGED <<store, vpaCache, up>> /\ pc # "idle"
    BY <1>6 DEF GetObject, UpdateObject
  <2>2. CASE Advance \/ Return(TRUE)
    BY <1>0, <2>1, <2>2, ReturnOrAdvance
  <2>3. CASE /\ UNCHANGED <<idx, rvpa, queued>>
             /\ pc' \in {"create", "update", "put"}
             /\ pc' = "put" /\ o \in Watched /\ ~heldStale' =>
                   held' = store[o] /\ held'.live
    BY <2>1, <2>3 DEF PassConsistent
  <2>4. CASE GetObject
    BY <2>2, <2>3, <2>4 DEF GetObject, Goto, Watched
  <2>5. CASE UpdateObject
    BY <1>0, <2>2, <2>3, <2>5 DEF UpdateObject
  <2>. QED
    BY <1>6, <2>4, <2>5
<1>7. CASE CreateObject \/ PutObject \/ PutPolicy
  <2>1. UNCHANGED <<vpaCache, up>> /\ pc # "idle" /\ (Return(TRUE) \/ Advance)
    BY <1>7 DEF CreateObject, PutObject, PutPolicy, Reply
  <2>. QED
    BY <1>0, <2>1, ReturnOrAdvance
<1>8. CASE CallFails
  BY <1>8 DEF CallFails, Return, PassConsistent
<1>. QED
  BY <1>1, <1>2, <1>3, <1>4, <1>5, <1>6, <1>7, <1>8 DEF Next, Operator, Environment

-----------------------------------------------------------------------------
(* The inductive invariant.  TypeStep and PassStep cover two conjuncts; of *)
(* the others, an action has one step per conjunct it can disturb.         *)

SafetyInv == CachesCurrent /\ UidsIssued /\ Covered /\ TLSCovered

\* Every initial state satisfies the inductive invariant.
LEMMA InvInit == Init => IInv
<1>. SUFFICES ASSUME Init PROVE IInv
  OBVIOUS
<1>1. TypeOK
  BY TypeInit
<1>2. CachesCurrent
  BY DEF Init, CachesCurrent, Watched
<1>3. \A o \in Objects : ~store[o].live
  BY DEF Init, Absent
<1>4. UidsIssued
  <2>1. vpa.live => vpa.uid > 0
    BY NoVPATyped DEF Init
  <2>2. vpa.uid \in Nat
    BY <1>1 DEF TypeOK, ResourcesTyped, VPAs
  <2>. QED
    BY <1>3, <2>1, <2>2, NoVPATyped DEF Init, UidsIssued, OwnerKept, Watched
<1>5. PassConsistent /\ Covered /\ TLSCovered
  BY DEF Init, PassConsistent, Covered, TLSCovered
<1>. QED
  BY <1>1, <1>2, <1>4, <1>5 DEF IInv

\* A stuttering step.
LEMMA StutterKeeps == IInv /\ UNCHANGED vars => SafetyInv'
BY DEF IInv, SafetyInv, vars, clusterVars, cacheVars, workerVars, CachesCurrent,
       UidsIssued, OwnerKept, Covered, Remaining, Reconciled,
       TLSCovered

\* The operator's start: fresh caches and a queued key.
LEMMA StartKeeps == IInv /\ Start => SafetyInv'
<1>. SUFFICES ASSUME IInv, Start PROVE SafetyInv'
  OBVIOUS
<1>. USE DEF clusterVars, workerVars
<1>1. CachesCurrent'
  BY DEF Start, CachesCurrent, Watched
<1>2. UidsIssued'
  BY DEF Start, IInv, UidsIssued, OwnerKept, TypeOK, ResourcesTyped, VPAs
<1>4. Covered' /\ TLSCovered'
  BY DEF Start, Covered, TLSCovered
<1>. QED
  BY <1>1, <1>2, <1>4 DEF SafetyInv

\* Events delivered: caches catch up, and keys are queued for them.
LEMMA InformersKeep == IInv /\ Informers => SafetyInv'
<1>. SUFFICES ASSUME IInv, Informers PROVE SafetyInv'
  OBVIOUS
<1>. USE DEF clusterVars, cacheVars, workerVars
<1>1. CASE SyncVPA
  <2>1. CachesCurrent'
    BY <1>1 DEF SyncVPA, IInv, CachesCurrent
  <2>2. UidsIssued'
    BY <1>1 DEF SyncVPA, IInv, UidsIssued, OwnerKept, TypeOK, ResourcesTyped, VPAs
  <2>3. Covered' /\ TLSCovered'
    BY <1>1 DEF SyncVPA, IInv, Covered, TLSCovered
  <2>. QED
    BY <2>1, <2>2, <2>3 DEF SafetyInv
<1>2. CASE SyncAPIServer \/ Resync
  <2>1. CachesCurrent'
    BY <1>2 DEF SyncAPIServer, Resync, IInv, CachesCurrent
  <2>2. UidsIssued'
    BY <1>2 DEF SyncAPIServer, Resync, IInv, UidsIssued, OwnerKept
  <2>3. Covered' /\ TLSCovered'
    BY <1>2 DEF SyncAPIServer, Resync, IInv, Covered, TLSCovered
  <2>. QED
    BY <2>1, <2>2, <2>3 DEF SafetyInv
<1>3. ASSUME NEW o \in Objects, SyncObject(o) PROVE SafetyInv'
  <2>1. CachesCurrent'
    BY <1>3 DEF SyncObject, IInv, CachesCurrent, TypeOK, StoreTyped, CacheTyped, Watched
  <2>2. UidsIssued'
    BY <1>3 DEF SyncObject, IInv, UidsIssued, OwnerKept
  <2>4. Covered'
    <3>1. \A p \in Watched : pending[p] = "enqueue" =>
                queued' \/ pending'[p] = "enqueue"
      BY <1>3 DEF SyncObject, IInv, TypeOK, StoreTyped, Watched
    <3>2. queued => queued'
      BY <1>3 DEF SyncObject
    <3>. QED
      BY <1>3, <3>1, <3>2 DEF SyncObject, IInv, Covered, Remaining, Reconciled
  <2>5. TLSCovered'
    BY <1>3 DEF SyncObject, IInv, TLSCovered
  <2>. QED
    BY <2>1, <2>2, <2>4, <2>5 DEF SafetyInv
<1>. QED
  BY <1>1, <1>2, <1>3 DEF Informers

\* Users, administrators, crashes and the garbage collector: whatever they
\* change has an event on its way.
LEMMA EnvironmentKeeps == IInv /\ Environment => SafetyInv'
<1>. SUFFICES ASSUME IInv, Environment PROVE SafetyInv'
  OBVIOUS
<1>. USE DEF clusterVars, cacheVars, workerVars
<1>1. ASSUME NEW new \in VPAs, SetVPA(new), new.uid >= vpa.uid,
             new.live => new.uid > 0
      PROVE  SafetyInv'
  <2>1. CachesCurrent'
    BY <1>1 DEF SetVPA, IInv, CachesCurrent
  <2>2. UidsIssued'
    <3>1. /\ vpa.uid \in Nat /\ new.uid \in Nat
          /\ vpaCache.uid \in Nat /\ rvpa.uid \in Nat
      BY <1>1 DEF IInv, TypeOK, ResourcesTyped, WorkerTyped, VPAs
    <3>2. OwnerKept'
      BY <1>1, <3>1 DEF SetVPA, IInv, UidsIssued, OwnerKept
    <3>. QED
      BY <1>1, <3>1, <3>2 DEF SetVPA, IInv, UidsIssued
  <2>3. Covered' /\ TLSCovered'
    BY <1>1 DEF SetVPA, IInv, Covered, TLSCovered
  <2>. QED
    BY <2>1, <2>2, <2>3 DEF SafetyInv
<1>2. CASE CreateVPA \/ EditVPA \/ DeleteVPA
  <2>1. vpa \in VPAs /\ vpa.uid \in Nat /\ (vpa.live => vpa.uid > 0)
    BY DEF IInv, TypeOK, ResourcesTyped, UidsIssued, VPAs
  <2>2. ASSUME CreateVPA PROVE SafetyInv'
    <3>1. PICK s \in VPASpecs :
             SetVPA([live |-> TRUE, spec |-> s, uid |-> vpa.uid + 1])
      BY <2>2 DEF CreateVPA
    <3>2. [live |-> TRUE, spec |-> s, uid |-> vpa.uid + 1] \in VPAs
      BY <2>1 DEF VPAs
    <3>. QED
      BY <1>1, <2>1, <3>1, <3>2
  <2>3. ASSUME EditVPA PROVE SafetyInv'
    <3>1. PICK s \in VPASpecs : SetVPA([vpa EXCEPT !.spec = s])
      BY <2>3 DEF EditVPA
    <3>. DEFINE new == [vpa EXCEPT !.spec = s]
    <3>2. new \in VPAs /\ new.uid = vpa.uid /\ new.live = vpa.live
      BY <2>1 DEF VPAs
    <3>3. SetVPA(new)
      BY <3>1
    <3>. HIDE DEF new
    <3>4. new.uid >= vpa.uid /\ (new.live => new.uid > 0)
      BY <2>1, <3>2
    <3>. QED
      BY <1>1, <3>2, <3>3, <3>4
  <2>4. ASSUME DeleteVPA PROVE SafetyInv'
    <3>. DEFINE new == [NoVPA EXCEPT !.uid = vpa.uid]
    <3>1. SetVPA(new)
      BY <2>4 DEF DeleteVPA
    <3>2. new \in VPAs /\ new.uid = vpa.uid /\ ~new.live
      BY <2>1, NoVPATyped DEF VPAs
    <3>. HIDE DEF new
    <3>3. new.uid >= vpa.uid
      BY <2>1, <3>2
    <3>. QED
      BY <1>1, <3>1, <3>2, <3>3
  <2>. QED
    BY <1>2, <2>2, <2>3, <2>4
<1>3. CASE ChangeAPIServer
  <2>1. CachesCurrent'
    BY <1>3 DEF ChangeAPIServer, IInv, CachesCurrent
  <2>2. UidsIssued'
    BY <1>3 DEF ChangeAPIServer, IInv, UidsIssued, OwnerKept
  <2>4. Covered' /\ TLSCovered'
    BY <1>3 DEF ChangeAPIServer, IInv, Covered, Remaining, Reconciled, TLSCovered
  <2>. QED
    BY <2>1, <2>2, <2>4 DEF SafetyInv
<1>4. CASE Crash
  <2>1. CachesCurrent'
    BY <1>4 DEF Crash, IInv, CachesCurrent
  <2>2. UidsIssued'
    BY <1>4, NoVPATyped DEF Crash, IInv, UidsIssued, OwnerKept, TypeOK,
                            ResourcesTyped, VPAs
  <2>3. Covered' /\ TLSCovered'
    BY <1>4 DEF Crash, Covered, TLSCovered
  <2>. QED
    BY <2>1, <2>2, <2>3 DEF SafetyInv
<1>5. ASSUME NEW o \in Objects,
             TouchObject(o) \/ EditObject(o) \/ DeleteObject(o) \/ Collect(o)
      PROVE  SafetyInv'
  <2>0. store[o].live
    BY <1>5, OthersWrite DEF IInv
  <2>1. PICK slot \in Slots :
           Disturb(o, slot) /\ (slot.live => slot.owner = store[o].owner)
    BY <1>5, OthersWrite DEF IInv
  <2>2. StoreTyped /\ Write(o, slot)
    BY <2>1 DEF IInv, TypeOK, Disturb
  <2>3. o \in Watched => store[o].owner \in 1..vpa.uid
    BY <2>0 DEF IInv, UidsIssued, OwnerKept
  <2>4. o \in Watched /\ slot # store[o] => pending'[o] = "enqueue"
    BY <2>2, <2>3, WriteEffect DEF Enqueues
  <2>5. CachesCurrent'
    BY <2>1, <2>2, <2>3, WriteCaches DEF Disturb, IInv
  <2>6. UidsIssued'
    <3>1. OwnerKept'
      BY <2>1, <2>2, <2>3, WriteEffect DEF Disturb, IInv, UidsIssued, OwnerKept, Watched
    <3>. QED
      BY <2>1, <3>1 DEF Disturb, IInv, UidsIssued
  <2>8. Covered'
    <3>1. \A p \in Watched :
             pending'[p] = "enqueue" \/ (store'[p] = store[p] /\ pending'[p] = pending[p])
      BY <2>2, <2>4, WriteEffect DEF Watched
    <3>. QED
      BY <2>1, <3>1 DEF Disturb, IInv, Covered, Remaining, Reconciled
  <2>9. TLSCovered'
    BY <2>1 DEF Disturb, IInv, TLSCovered
  <2>. QED
    BY <2>5, <2>6, <2>8, <2>9 DEF SafetyInv
<1>. QED
  BY <1>2, <1>3, <1>4, <1>5 DEF Environment

\* A pass begins, finds no resource, or fails to read it.
LEMMA ReconcileKeeps == IInv /\ Reconcile => SafetyInv'
<1>. SUFFICES ASSUME IInv, Reconcile PROVE SafetyInv'
  OBVIOUS
<1>. USE DEF clusterVars, cacheVars
<1>1. CachesCurrent'
  BY DEF Reconcile, IInv, CachesCurrent
<1>2. UidsIssued'
  BY DEF Reconcile, IInv, UidsIssued, OwnerKept
<1>4. Covered'
  <2>1. CASE pc' = "get"
    <3>1. idx' = 1
      BY DEF Reconcile, IInv, PassConsistent
    <3>2. \A o \in Objects : \E i \in 1..Len(Order) : Order[i] = o
      BY DEF Objects
    <3>. QED
      BY <2>1, <3>1, <3>2 DEF Covered, Remaining, Watched
  <2>2. CASE ~vpaCache.live /\ queued' = FALSE
    BY <2>2 DEF Reconcile, IInv, CachesCurrent, Covered
  <2>3. CASE queued' = queued
    BY <2>3 DEF Reconcile, Covered
  <2>. QED
    BY <2>1, <2>2, <2>3 DEF Reconcile
<1>5. TLSCovered'
  <2>1. cfg'.tls = syncTLSProfile(cfg.tls, apiCache)
    BY DEF Reconcile, IInv, TypeOK, Configs
  <2>2. syncTLSProfile(cfg'.tls, apiCache) = cfg'.tls
    BY <2>1 DEF syncTLSProfile
  <2>. QED
    BY <2>2 DEF Reconcile, IInv, CachesCurrent, TLSCovered
<1>. QED
  BY <1>1, <1>2, <1>4, <1>5 DEF SafetyInv

\* The reads of a pass.  An object is passed over only when it is as the
\* pass wants it.
LEMMA ReadsKeep == IInv /\ (GetObject \/ UpdateObject) => SafetyInv'
<1>. SUFFICES ASSUME IInv, GetObject \/ UpdateObject PROVE SafetyInv'
  OBVIOUS
<1>. USE DEF clusterVars, cacheVars
<1>. DEFINE o == Order[idx]
<1>0. /\ o \in Objects /\ pc # "idle" /\ WorkerTyped /\ queued \in BOOLEAN
      /\ UNCHANGED <<store, vpa, api, cache, pending, vpaCache, vpaPending,
                     apiCache, apiPending, cfg, up, env, fails>>
  BY OrderFacts DEF GetObject, UpdateObject, IInv, TypeOK, WorkerTyped
<1>1. CachesCurrent'
  BY <1>0 DEF IInv, CachesCurrent
<1>2. CASE Return(TRUE)
  <2>1. UidsIssued'
    BY <1>0, <1>2, NoVPATyped DEF Return, IInv, UidsIssued, OwnerKept, TypeOK,
                                  ResourcesTyped, VPAs
  <2>2. Covered' /\ TLSCovered'
    BY <1>2 DEF Return, Covered, TLSCovered
  <2>. QED
    BY <1>1, <2>1, <2>2 DEF SafetyInv
<1>3. CASE /\ Advance
           /\ cache[o].live
           /\ cache[o].content = Expected(o, rvpa.spec, cfg)
  <2>0. queued' = queued
    BY <1>0, <1>3 DEF Advance, Return
  <2>1. UidsIssued'
    BY <1>0, <1>3, NoVPATyped DEF Advance, Return, IInv, UidsIssued, OwnerKept,
                                  TypeOK, ResourcesTyped, VPAs
  <2>3. Covered'
    <3>. SUFFICES ASSUME up, vpa.live, ~queued, ~vpaPending,
                         NEW p \in Watched, pending[p] # "enqueue"
                  PROVE  Remaining(p)' \/ Reconciled(p)'
      BY <1>0, <2>0 DEF Covered
    <3>1. p \in Objects /\ (Remaining(p) \/ Reconciled(p))
      BY DEF IInv, Covered, Watched
    <3>2. Reconciled(p) => Reconciled(p)'
      BY <1>0 DEF Reconciled
    <3>3. CASE p # o
      BY <1>0, <1>3, <3>1, <3>2, <3>3, AdvanceRemaining
    <3>4. CASE p = o
      <4>1. store[p] = cache[p]
        BY <3>1 DEF IInv, CachesCurrent, TypeOK, StoreTyped
      <4>2. rvpa = vpa
        BY <1>0 DEF IInv, PassConsistent, CachesCurrent
      <4>3. Expected(p, vpa.spec, cfg) \in Contents(p)
        BY <1>3, <3>1, <3>4, <4>2 DEF IInv, TypeOK, CacheTyped
      <4>4. Expected(p, vpa.spec, cfg) = Stored(p, vpa.spec, cfg)
        BY <3>1, <4>3, EqualIsStored DEF IInv, TypeOK, ResourcesTyped, VPAs
      <4>. QED
        BY <1>3, <3>2, <3>4, <4>1, <4>2, <4>4 DEF Reconciled
    <3>. QED
      BY <3>3, <3>4
  <2>4. TLSCovered'
    BY <1>0, <2>0 DEF IInv, TLSCovered
  <2>. QED
    BY <1>1, <2>1, <2>3, <2>4 DEF SafetyInv
<1>4. CASE /\ UNCHANGED <<idx, rvpa, queued>>
           /\ pc' \in {"create", "update", "put"}
  <2>1. UidsIssued'
    BY <1>0, <1>4 DEF IInv, UidsIssued, OwnerKept
  <2>3. Covered' /\ TLSCovered'
    BY <1>0, <1>4 DEF IInv, Covered, Remaining, Reconciled, TLSCovered
  <2>. QED
    BY <1>1, <2>1, <2>3 DEF SafetyInv
<1>5. CASE GetObject
  BY <1>3, <1>4, <1>5 DEF GetObject, Goto, Matches, Watched
<1>6. CASE UpdateObject
  BY <1>2, <1>3, <1>4, <1>6 DEF UpdateObject, Matches
<1>. QED
  BY <1>5, <1>6

\* The writes of a pass: what is written is what the resource asks for.
LEMMA WritesKeep == IInv /\ (CreateObject \/ PutObject \/ PutPolicy) => SafetyInv'
<1>. SUFFICES ASSUME IInv, CreateObject \/ PutObject \/ PutPolicy PROVE SafetyInv'
  OBVIOUS
<1>. DEFINE o == Order[idx]
<1>0. /\ o \in Objects /\ pc # "idle" /\ WorkerTyped /\ queued \in BOOLEAN
      /\ UNCHANGED <<vpa, api, cache, vpaCache, vpaPending, apiCache, apiPending,
                     cfg, up, env>>
  BY OrderFacts DEF CreateObject, PutObject, PutPolicy, IInv, TypeOK, WorkerTyped
<1>1. CASE Return(TRUE) /\ UNCHANGED <<store, pending, fails>>
  <2>1. CachesCurrent'
    BY <1>0, <1>1 DEF IInv, CachesCurrent
  <2>2. UidsIssued'
    BY <1>0, <1>1, NoVPATyped DEF Return, IInv, UidsIssued, OwnerKept, TypeOK,
                                  ResourcesTyped, VPAs
  <2>3. Covered' /\ TLSCovered'
    BY <1>1 DEF Return, Covered, TLSCovered
  <2>. QED
    BY <2>1, <2>2, <2>3 DEF SafetyInv
<1>2. ASSUME NEW slot \in Slots, Write(o, slot), Reply, slot.live,
             slot.content = Stored(o, rvpa.spec, cfg),
             o \in Watched => slot.owner \in 1..vpa.uid
      PROVE  SafetyInv'
  <2>0. StoreTyped
    BY DEF IInv, TypeOK
  <2>1. CachesCurrent'
    BY <1>0, <1>2, <2>0, WriteCaches DEF IInv
  <2>2. UidsIssued'
    <3>1. OwnerKept'
      BY <1>0, <1>2, <2>0, WriteEffect DEF IInv, UidsIssued, OwnerKept, Watched
    <3>2. rvpa' = rvpa \/ (rvpa' = NoVPA /\ pc' = "idle")
      BY <1>2 DEF Reply, Advance, Return
    <3>. QED
      BY <1>0, <3>1, <3>2, NoVPATyped DEF IInv, UidsIssued, TypeOK,
                                          ResourcesTyped, VPAs
  <2>4. queued' \/ (Advance /\ queued' = queued)
    BY <1>0, <1>2 DEF Reply, Advance, Return
  <2>5. Covered'
    <3>. SUFFICES ASSUME up, vpa.live, ~queued', ~vpaPending,
                         NEW p \in Watched, pending'[p] # "enqueue"
                  PROVE  Remaining(p)' \/ Reconciled(p)'
      BY <1>0 DEF Covered
    <3>0. Advance /\ ~queued
      BY <2>4
    <3>1. p \in Objects
      BY DEF Watched
    <3>2. CASE p # o
      <4>1. store'[p] = store[p] /\ pending'[p] = pending[p]
        BY <1>0, <1>2, <2>0, <3>1, <3>2, WriteEffect
      <4>2. Remaining(p) \/ Reconciled(p)
        BY <3>0, <4>1 DEF IInv, Covered
      <4>. QED
        BY <1>0, <3>0, <3>1, <3>2, <4>1, <4>2, AdvanceRemaining DEF Reconciled
    <3>3. CASE p = o
      <4>1. rvpa = vpa
        BY <1>0, <3>0 DEF IInv, PassConsistent, CachesCurrent
      <4>2. store'[p] = slot
        BY <1>0, <1>2, <2>0, <3>3, WriteEffect
      <4>. QED
        BY <1>0, <1>2, <3>3, <4>1, <4>2 DEF Reconciled
    <3>. QED
      BY <3>2, <3>3
  <2>6. TLSCovered'
    BY <1>0, <2>4 DEF IInv, TLSCovered
  <2>. QED
    BY <2>1, <2>2, <2>5, <2>6 DEF SafetyInv
<1>. QED
  BY <1>1, <1>2, OwnWrite

\* A failed call ends the pass with the key back in the queue.
LEMMA FailureKeeps == IInv /\ CallFails => SafetyInv'
<1>. SUFFICES ASSUME IInv, CallFails PROVE SafetyInv'
  OBVIOUS
<1>. USE DEF clusterVars, cacheVars
<1>1. CachesCurrent'
  BY DEF CallFails, IInv, CachesCurrent
<1>2. UidsIssued'
  BY NoVPATyped DEF CallFails, Return, IInv, UidsIssued, OwnerKept, TypeOK,
                    ResourcesTyped, VPAs
<1>3. Covered' /\ TLSCovered'
  BY DEF CallFails, Return, Covered, TLSCovered
<1>. QED
  BY <1>1, <1>2, <1>3 DEF SafetyInv

\* The invariant is inductive.
LEMMA InvStep == IInv /\ [Next]_vars => IInv'
<1>. SUFFICES ASSUME IInv, [Next]_vars PROVE IInv'
  OBVIOUS
<1>1. TypeOK'
  BY TypeStep DEF IInv
<1>2. PassConsistent'
  BY PassStep DEF IInv, CachesCurrent
<1>3. SafetyInv'
  BY StutterKeeps, StartKeeps, InformersKeep, EnvironmentKeeps, ReconcileKeeps,
     ReadsKeep, WritesKeep, FailureKeeps DEF Next, Operator
<1>. QED
  BY <1>1, <1>2, <1>3 DEF IInv, SafetyInv

\* The invariant holds in every behaviour of the reconciler.
THEOREM Inductive == Spec => []IInv
BY InvInit, InvStep, PTL DEF Spec

-----------------------------------------------------------------------------
(* What follows from it.                                                   *)

\* Whenever the queue is empty and the relevant events are delivered, every
\* deployment, the service and the config map exist as Reconcile wants them.
THEOREM QuietReconciled == Spec => []QuietMeansReconciled
<1>1. IInv => QuietMeansReconciled
  BY DEF IInv, QuietMeansReconciled, Quiet, Covered, Remaining
<1>. QED
  BY <1>1, Inductive, PTL

\* The TLS profile in use is the one the cluster asks for once the queue has
\* drained after the last APIServer event.
THEOREM TLSFollows == Spec => []TLSFollowsCluster
<1>1. IInv => TLSFollowsCluster
  BY DEF IInv, TLSFollowsCluster, Quiet, TLSCovered, syncTLSProfile
<1>. QED
  BY <1>1, Inductive, PTL

\* Watched objects always carry the UID of a resource that was created.
THEOREM OwnersKept == Spec => []OwnerKept
<1>1. IInv => OwnerKept
  BY DEF IInv, UidsIssued
<1>. QED
  BY <1>1, Inductive, PTL

\* No write of the reconciler undoes a concurrent change of a deployment, of
\* the service or of the config map.
THEOREM UpdatesKept == Spec => NoLostUpdate
<1>. DEFINE Keeps == \A o \in Watched :
                        store[o].live /\ store'[o].live =>
                            /\ store'[o].extra >= store[o].extra
                            /\ store'[o].owner = store[o].owner
<1>1. ASSUME IInv, [Next]_vars PROVE [Keeps]_vars
  <2>0. \A o \in Watched : o \in Objects /\ store[o].extra \in Nat
    BY <1>1 DEF IInv, TypeOK, StoreTyped, Slots, Watched
  <2>1. CASE UNCHANGED store
    BY <2>0, <2>1
  <2>2. CASE CreateObject \/ PutObject \/ PutPolicy
    <3>1. Order[idx] \in Objects /\ StoreTyped
      BY <1>1, OrderFacts DEF IInv, TypeOK, WorkerTyped
    <3>2. ASSUME NEW slot \in Slots, Write(Order[idx], slot),
                 Order[idx] \in Watched /\ store[Order[idx]].live =>
                    /\ slot.owner = store[Order[idx]].owner
                    /\ slot.extra = store[Order[idx]].extra
          PROVE  Keeps
      <4>1. store'[Order[idx]] = slot
        BY <3>1, <3>2, WriteEffect
      <4>2. \A p \in Objects : p # Order[idx] => store'[p] = store[p]
        BY <3>1, <3>2, WriteEffect
      <4>. QED
        BY <2>0, <3>2, <4>1, <4>2
    <3>. QED
      BY <1>1, <2>1, <2>2, <3>2, OwnWrite
  <2>3. ASSUME NEW o \in Objects,
               TouchObject(o) \/ EditObject(o) \/ DeleteObject(o) \/ Collect(o)
        PROVE  Keeps
    <3>1. PICK slot \in Slots :
             /\ Write(o, slot)
             /\ slot.live => /\ slot.owner = store[o].owner
                             /\ slot.extra >= store[o].extra
      BY <1>1, <2>3, OthersWrite DEF IInv, Disturb
    <3>. QED
      BY <1>1, <2>0, <3>1, WriteEffect DEF IInv, TypeOK
  <2>. QED
    BY <1>1, <2>1, <2>2, <2>3
       DEF vars, clusterVars, Next, Operator, Start, Reconcile, GetObject,
           UpdateObject, CallFails, Informers, SyncVPA, SyncAPIServer, Resync,
           SyncObject, Environment, CreateVPA, EditVPA, DeleteVPA, SetVPA,
           ChangeAPIServer, Crash
<1>. QED
  BY <1>1, Inductive, PTL DEF Spec, NoLostUpdate
=============================================================================
