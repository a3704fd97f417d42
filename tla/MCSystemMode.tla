---------------------------- MODULE MCSystemMode ----------------------------
(* Model-checking instance of SystemMode. *)
EXTENDS SystemMode

=============================================================================
