-------------------------- MODULE MCFirstSuccessful --------------------------
(* FirstSuccessful on a handful of candidates, with the mutants of its code. *)
EXTENDS FirstSuccessful
=============================================================================
