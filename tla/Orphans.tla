------------------------------ MODULE Orphans -------------------------------
(***************************************************************************)
(* The reconciler and objects that exist without its owner reference.  A   *)
(* user may delete the resource and keep its objects (cascade=orphan) and  *)
(* create it again: the Update methods then take the objects over as they  *)
(* are, but set no controller reference, so that no event about them leads *)
(* to a key any more and nothing collects them.                            *)
(***************************************************************************)
EXTENDS Reconciler

VARIABLE orphaned   \* history: objects that have lost their owner

ovars == <<vars, orphaned>>

OInit == Init /\ orphaned = {}

\* The garbage collector removes the owner references before the resource
\* goes; a pass that still has the resource may create further objects.
OrphanVPA ==
    /\ Intervene /\ vpa.live
    /\ vpa' = [NoVPA EXCEPT !.uid = vpa.uid] /\ vpaPending' = TRUE
    /\ store' = [o \in Objects |->
                    IF store[o].owner = vpa.uid THEN [store[o] EXCEPT !.owner = 0]
                    ELSE store[o]]
    /\ pending' = [o \in Objects |->
                      IF store'[o] = store[o] THEN pending[o]
                      ELSE IF Enqueues(o, store[o], store'[o]) THEN "enqueue"
                      ELSE IF pending[o] = "none" THEN "silent" ELSE pending[o]]
    /\ orphaned' = orphaned \union {o \in Objects : store'[o] # store[o]}
    /\ heldStale' = (heldStale \/ (pc = "put" /\ store'[Order[idx]] # store[Order[idx]]))
    /\ UNCHANGED <<api, cache, vpaCache, apiCache, apiPending, cfg, up, queued,
                   pc, idx, rvpa, held, fails>>

ONext == OrphanVPA \/ (Next /\ UNCHANGED orphaned)

OSpec == OInit /\ [][ONext]_ovars

OFairSpec == OSpec /\ Fairness

-----------------------------------------------------------------------------
(* Correctness.                                                            *)

\* The object has lost its owner and was not created anew since.
Overlooked(o) == o \in orphaned /\ store[o].owner = 0

\* What losing its owner costs an object, and that it costs no other object
\* anything: with an empty queue and delivered events, every watched object is
\* what the resource asks for, except those that lost their owner and were not
\* created anew since.  Others' changes to those go unnoticed, and so does the
\* reconciler's own write from an outdated copy of the resource, when the next
\* pass still sees the object as it was before that write.
OnlyOrphansOverlooked ==
    Quiet /\ ~vpaPending /\ vpa.live =>
        \A o \in Watched :
            pending[o] = "none" =>
                Reconciled(o) \/ Overlooked(o)

\* With the periodic resync nothing is overlooked for ever: the Update methods
\* bring orphans up to date like any other object.
OrphansSettle == <>[](up /\ vpa.live => \A o \in Objects : Reconciled(o))
-----------------------------------------------------------------------------
(* The inductive invariant.  Reconciler's does not survive OrphanVPA: here *)
(* a watched object may have no owner, and events about it map to no key.  *)

\* Cached copies without an undelivered event are current; an event that leads
\* to no key is about an object that lost its owner.
OrphansSilent ==
    /\ \A o \in Objects : pending[o] = "none" => cache[o] = store[o]
    /\ \A o \in Watched : pending[o] = "silent" => Overlooked(o)
    /\ ~vpaPending => vpaCache = vpa

\* Watched objects without an owner are those that lost it.
OwnersOrOrphans ==
    /\ vpaCache.uid <= vpa.uid /\ rvpa.uid <= vpa.uid
    /\ vpa.live => vpa.uid > 0
    /\ vpaCache.live => vpaCache.uid > 0
    /\ pc # "idle" => rvpa.uid > 0
    /\ \A o \in Watched :
          store[o].live => store[o].owner \in 1..vpa.uid \/ Overlooked(o)

\* Covered, but for the objects no key is queued for any more.
OthersCovered ==
    up /\ vpa.live =>
        \A o \in Watched : \/ queued \/ vpaPending
                           \/ pending[o] = "enqueue"
                           \/ Remaining(o) \/ Reconciled(o) \/ Overlooked(o)

OInv == /\ TypeOK /\ orphaned \subseteq Objects
        /\ OrphansSilent /\ OwnersOrOrphans /\ PassConsistent /\ OthersCovered
=============================================================================
