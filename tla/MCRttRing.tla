----------------------------- MODULE MCRttRing ------------------------------
(* Model-checking instance of RttRing. *)
EXTENDS RttRing

=============================================================================
