-------------------------- MODULE MCMirrorHistory --------------------------
(* MirrorHistory on the small sets of MCMirrorReconciler. *)
EXTENDS MirrorHistory, MCMirrorReconciler
=============================================================================
