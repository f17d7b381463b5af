---------------------------- MODULE DesiredState ----------------------------
(***************************************************************************)
(* What a reconciler promises, without caches, queues, passes, processes   *)
(* or failures: it may rest only when every object is what is wanted, any  *)
(* change of the wish or of an object ends its rest, objects are changed   *)
(* one at a time, are created with an owner, and keep their owner and what *)
(* others wrote into them for as long as they exist.  The module           *)
(* Reconciler implements it.                                               *)
(***************************************************************************)
EXTENDS Naturals

CONSTANTS
    Objects,  \* the names looked after
    Nothing   \* no objects are wanted

VARIABLES
    wanted,   \* Nothing, or the content wanted of each object
    actual,   \* the objects: [live, content, extra, owner]
    settled   \* the reconciler rests

dvars == <<wanted, actual, settled>>

Init == (\A o \in Objects : ~actual[o].live) /\ settled = FALSE

\* The user, the administrator or a new release wants something else.
Want ==
    /\ wanted' # wanted /\ settled' = FALSE
    /\ UNCHANGED actual

\* An object is created, changed or removed, by the reconciler or others.
Change(o) ==
    /\ actual'[o] # actual[o]
    /\ \A p \in Objects \ {o} : actual'[p] = actual[p]
    /\ actual'[o].live => actual'[o].owner > 0
    /\ actual[o].live /\ actual'[o].live =>
          actual'[o].owner = actual[o].owner /\ actual'[o].extra >= actual[o].extra
    /\ settled' = FALSE
    /\ UNCHANGED wanted

\* The reconciler has nothing left to do.
Settle ==
    /\ ~settled /\ settled' = TRUE
    /\ wanted # Nothing =>
          \A o \in Objects : actual[o].live /\ actual[o].content = wanted[o]
    /\ UNCHANGED <<wanted, actual>>

\* It looks again, or is not there to look.
Stir ==
    /\ settled /\ settled' = FALSE
    /\ UNCHANGED <<wanted, actual>>

Next == Want \/ Settle \/ Stir \/ \E o \in Objects : Change(o)

Spec == Init /\ [][Next]_dvars
=============================================================================
