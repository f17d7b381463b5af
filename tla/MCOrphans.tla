----------------------------- MODULE MCOrphans ------------------------------
(* Small instances of Orphans for TLC.                                     *)
EXTENDS Orphans, MCReconciler
=============================================================================
