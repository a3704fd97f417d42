---------------------------- MODULE MCDmaSensor -----------------------------
(* Model-checking instance of DmaSensor. *)
EXTENDS DmaSensor

=============================================================================
